---- MODULE Spec2Model ----
(***************************************************************************)
(* Nimbus: application state (src/app/state.rs) and the key loop of the   *)
(* terminal UI (src/main.rs, run_tui / run_app).                          *)
(*                                                                         *)
(* AppState methods are operators on a record `s` holding the fields of   *)
(* AppState; the handlers of run_app are actions that compose them.  A    *)
(* state of the model is a point where the loop renders or polls.         *)
(* Indices (selected_index, filtered_resources, selected_action) are      *)
(* 0-based as in the source; Option<T> is <<>> (None) or <<x>> (Some(x)). *)
(***************************************************************************)
EXTENDS Integers, Sequences, FiniteSets, TLC

\* ------------------------------------------------------------------ bounds
MaxStoreLen == 2
MaxFilterLen == 1
MaxWideLen == 5
MaxTextLen == 2
MaxFilterStoreLen == 3

\* ------------------------------------------------------------- Option, Vec
None == <<>>
Some(x) == <<x>>
IsSome(o) == o # <<>>
Unwrap(o) == o[1]

\* Vec::get / slice::get with a 0-based index
Get(v, i) == IF i < Len(v) THEN Some(v[i + 1]) ELSE None

SeqsUpTo(S, n) == UNION {[1..k -> S] : k \in 0..n}

\* ------------------------------------------------------------------- text
\* The characters of the strings that resources carry and the filter reads.
Chars ==
  [x \in {"Web", "i-1", "Compute", "Running", "Stopping", "us-east-1",
          "db", "i-2", "Stopped", "eu-west-1"} |->
     CASE x = "Web"       -> <<"W", "e", "b">>
       [] x = "i-1"       -> <<"i", "-", "1">>
       [] x = "Compute"   -> <<"C", "o", "m", "p", "u", "t", "e">>
       [] x = "Running"   -> <<"R", "u", "n", "n", "i", "n", "g">>
       [] x = "Stopping"  -> <<"S", "t", "o", "p", "p", "i", "n", "g">>
       [] x = "us-east-1" -> <<"u", "s", "-", "e", "a", "s", "t", "-", "1">>
       [] x = "db"        -> <<"d", "b">>
       [] x = "i-2"       -> <<"i", "-", "2">>
       [] x = "Stopped"   -> <<"S", "t", "o", "p", "p", "e", "d">>
       [] x = "eu-west-1" -> <<"e", "u", "-", "w", "e", "s", "t", "-", "1">>]

\* char::to_lowercase on the characters in use
LowerChar(c) ==
  CASE c = "W" -> "w" [] c = "R" -> "r" [] c = "C" -> "c" [] c = "S" -> "s"
    [] c = "D" -> "d" [] c = "B" -> "b"
    [] OTHER -> c

\* str::to_lowercase
to_lowercase(t) == [i \in 1..Len(t) |-> LowerChar(t[i])]

\* str::contains(&pattern): substring test (the empty pattern is contained)
contains(hay, needle) ==
  \E i \in 0..(Len(hay) - Len(needle)) :
     \A j \in 1..Len(needle) : hay[i + j] = needle[j]

\* -------------------------------------------------------------- resources
\* The CloudResource objects a provider may list: an EC2Instance before and
\* after it was asked to stop.
Web == [id |-> "i-1", name |-> "Web", provider |-> "AWS",
        region |-> "us-east-1", state |-> "Running"]
WebStopping == [id |-> "i-1", name |-> "Web", provider |-> "AWS",
        region |-> "us-east-1", state |-> "Stopping"]
Pool == {Web, WebStopping}

\* a second, stopped instance in another region, for the stores that the
\* filter is exercised on
Db == [id |-> "i-2", name |-> "db", provider |-> "AWS",
       region |-> "eu-west-1", state |-> "Stopped"]
FilterPool == Pool \cup {Db}

\* EC2Instance::resource_type().as_str()
resource_type(r) == "Compute"

\* EC2Instance::supported_actions
supported_actions(r) ==
  CASE r.state = "Running" -> <<"Stop", "Restart", "Terminate", "ViewDetails">>
    [] r.state = "Stopped" -> <<"Start", "Terminate", "ViewDetails">>
    [] OTHER               -> <<"ViewDetails">>

\* a classification in which no action is destructive
is_destructive_none(a) == FALSE

\* Action::is_destructive
is_destructive(a) == a = "Terminate"

\* Action::as_str().to_lowercase() as used in the confirmation message
action_lower(a) ==
  CASE a = "Start" -> "start" [] a = "Stop" -> "stop" [] a = "Restart" -> "restart"
    [] a = "Terminate" -> "terminate" [] a = "ViewDetails" -> "view details"
    [] a = "ViewLogs" -> "view logs" [] OTHER -> "modify"

\* ----------------------------------------------------------------- errors
\* NimbusError values and their Display text (#[error(...)] attributes)
ProviderError(p, m) == [variant |-> "ProviderError", a |-> p, b |-> m]
AuthenticationFailed(p, m) == [variant |-> "AuthenticationFailed", a |-> p, b |-> m]
UnsupportedAction(act, rt) == [variant |-> "UnsupportedAction", a |-> act, b |-> rt]
Other(m) == [variant |-> "Other", a |-> m, b |-> ""]

Display(e) ==
  CASE e.variant = "ProviderError"        -> "Provider error from " \o e.a \o ": " \o e.b
    [] e.variant = "AuthenticationFailed" -> "Authentication failed for " \o e.a \o ": " \o e.b
    [] e.variant = "UnsupportedAction"    ->
         "Action " \o e.a \o " not supported for resource type " \o e.b
    [] OTHER                              -> e.a

\* --------------------------------------------------------------- AppState
\* TabIndex::all
TabAll == <<"AWS", "GCP", "Azure", "AllClouds">>

\* TabIndex::index
TabIndexOf(tab) == CHOOSE i \in 0..3 : TabAll[i + 1] = tab

\* TabIndex::next
TabNext(tab) == TabAll[((TabIndexOf(tab) + 1) % Len(TabAll)) + 1]

\* TabIndex::prev that stops at the first tab
TabPrev_saturating(tab) ==
  LET current_index == TabIndexOf(tab)
  IN  TabAll[(IF current_index = 0 THEN 0 ELSE current_index - 1) + 1]

\* TabIndex::prev
TabPrev(tab) ==
  LET current_index == TabIndexOf(tab)
      prev_index == IF current_index = 0 THEN Len(TabAll) - 1 ELSE current_index - 1
  IN  TabAll[prev_index + 1]

\* AppState::new().with_providers(providers).with_cache_enabled(enabled)
new_state(provs, enabled) ==
  [providers |-> provs,
   active_tab |-> "AWS",
   resources |-> <<>>,
   filtered_resources |-> <<>>,
   selected_index |-> 0,
   filter_text |-> <<>>,
   view_mode |-> "Dashboard",
   input_mode |-> "Normal",
   loading |-> FALSE,
   last_refresh |-> None,
   error_message |-> None,
   success_message |-> None,
   should_quit |-> FALSE,
   selected_action |-> 0,
   show_confirmation |-> FALSE,
   confirmation_message |-> "",
   last_action |-> None,
   last_action_time |-> None,
   cache_enabled |-> enabled]

next_tab(s) == [s EXCEPT !.active_tab = TabNext(s.active_tab)]

prev_tab(s) == [s EXCEPT !.active_tab = TabPrev(s.active_tab)]

set_tab(s, tab) == [s EXCEPT !.active_tab = tab]

toggle_view_mode(s) ==
  [s EXCEPT !.view_mode = CASE s.view_mode = "Dashboard"    -> "ResourceList"
                            [] s.view_mode = "ResourceList" -> "Dashboard"
                            [] OTHER                        -> "ResourceList"]

\* enter_detail_view without the test of the filtered view
enter_detail_view_unguarded(s) ==
  [s EXCEPT !.view_mode = "ResourceDetail", !.selected_action = 0]

enter_detail_view(s) ==
  IF s.filtered_resources # <<>>
  THEN [s EXCEPT !.view_mode = "ResourceDetail", !.selected_action = 0]
  ELSE s

exit_detail_view(s) ==
  [s EXCEPT !.view_mode = "ResourceList", !.selected_action = 0,
            !.show_confirmation = FALSE]

next_action(s, max_actions) ==
  IF max_actions > 0
  THEN [s EXCEPT !.selected_action = (s.selected_action + 1) % max_actions]
  ELSE s

prev_action(s, max_actions) ==
  IF max_actions > 0
  THEN [s EXCEPT !.selected_action =
          IF s.selected_action = 0 THEN max_actions - 1 ELSE s.selected_action - 1]
  ELSE s

show_action_confirmation(s, message) ==
  [s EXCEPT !.confirmation_message = message, !.show_confirmation = TRUE]

\* a cancel that also puts the action cursor back to the first action
cancel_confirmation_reset(s) ==
  [s EXCEPT !.show_confirmation = FALSE, !.confirmation_message = "",
            !.selected_action = 0]

cancel_confirmation(s) ==
  [s EXCEPT !.show_confirmation = FALSE, !.confirmation_message = ""]

\* a lookup that takes the cursor for a store index
get_selected_resource_index_raw(s) ==
  IF s.selected_index < Len(s.resources) THEN Some(s.selected_index) ELSE None

get_selected_resource_index(s) == Get(s.filtered_resources, s.selected_index)

quit(s) == [s EXCEPT !.should_quit = TRUE]

start_loading(s) ==
  [s EXCEPT !.loading = TRUE, !.error_message = None, !.success_message = None]

\* stop_loading that leaves the flag set
stop_loading_skipped(s) == s

stop_loading(s) == [s EXCEPT !.loading = FALSE]

\* set_error that leaves the success message in place
set_error_keep_success(s, error) ==
  [s EXCEPT !.error_message = Some(error), !.loading = FALSE]

set_error(s, error) ==
  [s EXCEPT !.error_message = Some(error), !.success_message = None, !.loading = FALSE]

set_success(s, message) ==
  [s EXCEPT !.success_message = Some(message), !.error_message = None, !.loading = FALSE]

clear_success(s) == [s EXCEPT !.success_message = None]

clear_messages(s) == [s EXCEPT !.error_message = None, !.success_message = None]

record_action(s, action_description) ==
  [s EXCEPT !.last_action = Some(action_description), !.last_action_time = Some("now")]

enter_filter_mode(s) == [s EXCEPT !.input_mode = "Filter"]

exit_filter_mode(s) == [s EXCEPT !.input_mode = "Normal"]

is_filtering(s) == s.input_mode = "Filter"

\* a filter predicate that compares without lowering the resource's fields
matches_filter_exact_case(resource, filter_lower) ==
  \/ contains(Chars[resource.name], filter_lower)
  \/ contains(Chars[resource.id], filter_lower)
  \/ contains(Chars[resource_type(resource)], filter_lower)
  \/ contains(Chars[resource.state], filter_lower)
  \/ contains(Chars[resource.region], filter_lower)

\* the predicate of the filter closure in apply_filter
matches_filter(resource, filter_lower) ==
  \/ contains(to_lowercase(Chars[resource.name]), filter_lower)
  \/ contains(to_lowercase(Chars[resource.id]), filter_lower)
  \/ contains(to_lowercase(Chars[resource_type(resource)]), filter_lower)
  \/ contains(to_lowercase(Chars[resource.state]), filter_lower)
  \/ contains(to_lowercase(Chars[resource.region]), filter_lower)

\* iter().enumerate().filter(..).map(|(idx, _)| idx).collect(), by recursion on
\* the prefix length n
RECURSIVE filter_indices(_, _, _)
filter_indices(resources, filter_lower, n) ==
  IF n = 0 THEN <<>>
  ELSE LET rest == filter_indices(resources, filter_lower, n - 1)
       IN  IF matches_filter(resources[n], filter_lower)
           THEN Append(rest, n - 1)
           ELSE rest

\* apply_filter without its final clamp
clamp_selection_none(s) == s

\* the clamp at the end of apply_filter
clamp_selection(s) ==
  IF s.selected_index >= Len(s.filtered_resources) /\ s.filtered_resources # <<>>
  THEN [s EXCEPT !.selected_index = Len(s.filtered_resources) - 1]
  ELSE s

apply_filter(s) ==
  LET filter_lower == to_lowercase(s.filter_text)
      view == IF filter_lower = <<>>
              THEN [i \in 1..Len(s.resources) |-> i - 1]
              ELSE filter_indices(s.resources, filter_lower, Len(s.resources))
  IN  clamp_selection([s EXCEPT !.filtered_resources = view])

push_filter_char(s, c) == apply_filter([s EXCEPT !.filter_text = Append(s.filter_text, c)])

pop_filter_char(s) ==
  apply_filter([s EXCEPT !.filter_text =
     IF s.filter_text = <<>> THEN <<>> ELSE SubSeq(s.filter_text, 1, Len(s.filter_text) - 1)])

clear_filter(s) == apply_filter([s EXCEPT !.filter_text = <<>>])

next_resource(s) ==
  IF s.filtered_resources # <<>>
  THEN [s EXCEPT !.selected_index = (s.selected_index + 1) % Len(s.filtered_resources)]
  ELSE s

\* prev_resource that stops at the first row
prev_resource_saturating(s) ==
  IF s.filtered_resources # <<>> /\ s.selected_index > 0
  THEN [s EXCEPT !.selected_index = s.selected_index - 1]
  ELSE s

prev_resource(s) ==
  IF s.filtered_resources # <<>>
  THEN [s EXCEPT !.selected_index =
          IF s.selected_index = 0 THEN Len(s.filtered_resources) - 1
          ELSE s.selected_index - 1]
  ELSE s

\* -------------------------------------------------- providers and the cache
\* The registrations handed to AppState::with_providers: provider_type() of
\* each registered CloudProvider, in registration order.
ProviderConfigs == {<<"GCP">>, <<"GCP", "AWS", "AWS">>}

\* CloudProvider::list_all_resources: Ok(resources) or Err(e).  The failure is
\* the one AWSProvider::ensure_authenticated produces.
ListOk(resources) == [ok |-> TRUE, resources |-> resources]
ListErr(e) == [ok |-> FALSE, err |-> e]
ListOutcomes(kind, maxlen) ==
  {ListOk(l) : l \in SeqsUpTo(Pool, maxlen)}
    \cup {ListErr(AuthenticationFailed(kind, "Provider not authenticated. Call authenticate() first."))}

\* number of resources listed by the providers that succeed
RECURSIVE listed_count(_, _)
listed_count(rs, n) ==
  IF n = 0 THEN 0
  ELSE listed_count(rs, n - 1) + (IF rs[n].ok THEN Len(rs[n].resources) ELSE 0)

\* one outcome per registered provider, at most maxlen resources in all; the
\* providers after the first failure are not queried, so their outcomes are
\* fixed to the failure as well
ListResults(provs, maxlen) ==
  {rs \in [1..Len(provs) -> UNION {ListOutcomes(k, maxlen) : k \in {"AWS", "GCP"}}] :
     /\ \A i \in 1..Len(provs) : rs[i] \in ListOutcomes(provs[i], maxlen)
     /\ \A i \in 1..Len(provs), j \in 1..Len(provs) : (i < j /\ ~rs[i].ok) => ~rs[j].ok
     /\ listed_count(rs, Len(provs)) <= maxlen}

\* the listing outcomes of one refresh pass, per registration
RefreshInputs == [provs \in ProviderConfigs |-> {rs : rs \in ListResults(provs, MaxStoreLen)}]

\* CloudProvider::execute_action as AWSProvider implements it: the four
\* lifecycle actions call the service, which may fail; any other action is
\* UnsupportedAction.
ExecOk == [ok |-> TRUE]
ExecErr(e) == [ok |-> FALSE, err |-> e]
execute_action_outcomes(kind, resource_id, action) ==
  IF action \in {"Start", "Stop", "Restart", "Terminate"}
  THEN {ExecOk,
        ExecErr(ProviderError(kind, "Failed to " \o action_lower(action) \o " instance "
                                       \o resource_id \o ": service error"))}
  ELSE {ExecErr(UnsupportedAction(action, "Compute"))}

\* The cache table: a set of rows [id, cached_at].  cached_at 0 is older than
\* the cutoff (expired); 3 is the time of a write made in this session.
InitialCaches ==
  {{}, {[id |-> "i-1", cached_at |-> 0]},
   {[id |-> "i-1", cached_at |-> 1], [id |-> "i-2", cached_at |-> 2]}}

\* CacheStore::cache_resources: INSERT OR REPLACE keyed by id, one transaction
cache_resources(rows, resources) ==
  LET ids == {resources[i].id : i \in 1..Len(resources)}
  IN  {row \in rows : row.id \notin ids} \cup {[id |-> x, cached_at |-> 3] : x \in ids}

\* CacheStore::get_all_cached_resources: WHERE cached_at > cutoff
get_all_cached_resources(rows) == {row \in rows : row.cached_at > 0}

\* the cached_at of the last row of the ORDER BY cached_at DESC result
last_cached_at(rows) == CHOOSE t \in {row.cached_at : row \in rows} :
                           \A row \in rows : t <= row.cached_at

\* ORDER BY cached_at DESC, then .first().cached_at
first_cached_at(rows) == CHOOSE t \in {row.cached_at : row \in rows} :
                            \A row \in rows : row.cached_at <= t

\* ----------------------------------------------------------------- refresh
\* all_resources.extend in the reverse of the registration order
RECURSIVE concat_resources_reversed(_, _)
concat_resources_reversed(results, n) ==
  IF n = 0 THEN <<>> ELSE results[n].resources \o concat_resources_reversed(results, n - 1)

RECURSIVE concat_resources(_, _)
concat_resources(results, n) ==
  IF n = 0 THEN <<>> ELSE concat_resources(results, n - 1) \o results[n].resources

\* index of the first provider whose listing fails, 0 if none does
first_failure(results) ==
  IF \A i \in 1..Len(results) : results[i].ok THEN 0
  ELSE CHOOSE i \in 1..Len(results) :
         ~results[i].ok /\ \A j \in 1..(i - 1) : results[j].ok

\* a provider loop that goes on after a failure
list_calls_no_break(results) ==
  [i \in 1..Len(results) |-> [op |-> "list_all_resources", provider |-> i, ok |-> results[i].ok,
                              listed |-> IF results[i].ok THEN Len(results[i].resources) ELSE 0]]

\* the calls of the `for provider in &self.providers` loop, up to the break
list_calls(results) ==
  LET f == first_failure(results)
      n == IF f = 0 THEN Len(results) ELSE f
  IN  [i \in 1..n |-> [op |-> "list_all_resources", provider |-> i, ok |-> results[i].ok,
                        listed |-> IF results[i].ok THEN Len(results[i].resources) ELSE 0]]

\* refresh_commit without the recompute of the filtered view
refresh_commit_stale(s, all_resources) ==
  stop_loading([s EXCEPT !.resources = all_resources, !.last_refresh = Some(3)])

\* the tail of refresh_resources after every listing succeeded
refresh_commit(s, all_resources) ==
  LET s1 == [s EXCEPT !.resources = all_resources]
      s2 == apply_filter(s1)
      s3 == [s2 EXCEPT !.last_refresh = Some(3)]
  IN  stop_loading(s3)

\* the had_error branch of refresh_resources
refresh_abort(s, e) == set_error(s, "Failed to load resources: " \o Display(e))

\* refresh_resources that keeps what the providers before the failing one
\* returned
refresh_resources_partial(s, results) ==
  LET s1 == start_loading(s)
      f == first_failure(results)
  IN  IF f # 0
      THEN [st |-> refresh_abort([s1 EXCEPT !.resources = concat_resources(results, f - 1)],
                                 results[f].err),
            ok |-> FALSE, calls |-> list_calls(results)]
      ELSE [st |-> refresh_commit(s1, concat_resources(results, Len(results))),
            ok |-> TRUE, calls |-> list_calls(results)]

\* AppState::refresh_resources: the state after the call, whether it returned
\* Ok, and the provider calls it made
refresh_resources(s, results) ==
  LET s1 == start_loading(s)
      f == first_failure(results)
  IN  IF f # 0
      THEN [st |-> refresh_abort(s1, results[f].err), ok |-> FALSE,
            calls |-> list_calls(results)]
      ELSE [st |-> refresh_commit(s1, concat_resources(results, Len(results))),
            ok |-> TRUE, calls |-> list_calls(results)]

\* refresh_and_cache_resources that returns the error of a failed cache write
cache_after_refresh_strict(r, cache_store, cache_ok) ==
  IF ~r.ok \/ cache_store = None
  THEN [st |-> r.st, ok |-> r.ok, calls |-> r.calls, cache_store |-> cache_store]
  ELSE [st |-> IF cache_ok THEN r.st
               ELSE set_error(r.st, "Database error: disk I/O error"),
        ok |-> cache_ok,
        calls |-> Append(r.calls, [op |-> "cache_resources", ok |-> cache_ok]),
        cache_store |-> IF cache_ok
                        THEN Some(cache_resources(Unwrap(cache_store), r.st.resources))
                        ELSE cache_store]

\* the part of refresh_and_cache_resources after `refresh_resources().await?`:
\* r is what refresh_resources returned
cache_after_refresh(r, cache_store, cache_ok) ==
  IF ~r.ok
  THEN [st |-> r.st, ok |-> FALSE, calls |-> r.calls, cache_store |-> cache_store]
  ELSE IF cache_store = None
  THEN [st |-> r.st, ok |-> TRUE, calls |-> r.calls, cache_store |-> cache_store]
  ELSE [st |-> r.st, ok |-> TRUE,
        calls |-> Append(r.calls, [op |-> "cache_resources", ok |-> cache_ok]),
        cache_store |-> IF cache_ok
                        THEN Some(cache_resources(Unwrap(cache_store), r.st.resources))
                        ELSE cache_store]

\* refresh_and_cache_resources (main.rs): cache_store is None or Some(rows);
\* cache_ok tells whether the cache write succeeds
refresh_and_cache_resources(s, cache_store, results, cache_ok) ==
  cache_after_refresh(refresh_resources(s, results), cache_store, cache_ok)

\* ---------------------------------------------------------- action dispatch
\* the action_info block of run_app: the (id, name, provider, action) under
\* the selection cursor and the action cursor, if any
action_info(s) ==
  LET idx == get_selected_resource_index(s)
  IN  IF idx = None THEN None
      ELSE LET resource == Get(s.resources, Unwrap(idx))
           IN  IF resource = None THEN None
               ELSE LET action == Get(supported_actions(Unwrap(resource)), s.selected_action)
                    IN  IF action = None THEN None
                        ELSE Some([resource_id |-> Unwrap(resource).id,
                                   resource_name |-> Unwrap(resource).name,
                                   resource_provider |-> Unwrap(resource).provider,
                                   action |-> Unwrap(action)])

\* a scan without the `break`: the last matching provider receives the call
find_provider_last(provs, resource_provider) ==
  IF \A i \in 1..Len(provs) : provs[i] # resource_provider THEN 0
  ELSE CHOOSE i \in 1..Len(provs) :
         provs[i] = resource_provider
           /\ \A j \in (i + 1)..Len(provs) : provs[j] # resource_provider

\* `for provider in &app_state.providers { if provider_type() == resource_provider
\* { ...; break } }`: index of the provider that receives the call, 0 if none
find_provider(provs, resource_provider) ==
  IF \A i \in 1..Len(provs) : provs[i] # resource_provider THEN 0
  ELSE CHOOSE i \in 1..Len(provs) :
         provs[i] = resource_provider /\ \A j \in 1..(i - 1) : provs[j] # resource_provider

\* the verb of the success message on the confirmed path
confirmed_verb(action) ==
  CASE action = "Start" -> "started" [] action = "Stop" -> "stopped"
    [] action = "Restart" -> "restarted" [] action = "Terminate" -> "terminated"
    [] OTHER -> "completed action on"

\* the verb of the success message on the immediate path
immediate_verb(action) ==
  CASE action = "Start" -> "started" [] action = "Stop" -> "stopped"
    [] action = "Restart" -> "restarted"
    [] OTHER -> "completed action on"

success_text(verb, resource_name) == "Successfully " \o verb \o " '" \o resource_name \o "'"

NoProviderText == "No provider found for this resource"

\* an end of the Some(Ok(_)) arm that puts the success message back when the
\* refresh failed
after_action_refresh_suppressed(r) ==
  [st |-> IF r.ok THEN r.st ELSE set_success(r.st, Unwrap(r.st.last_action)),
   last_message_time |-> Some("now"), cache_store |-> r.cache_store,
   calls |-> r.calls, refresh |-> IF r.ok THEN "ok" ELSE "err"]

\* the end of the Some(Ok(_)) arm: r is what refresh_and_cache_resources
\* returned; its error is logged and dropped
after_action_refresh(r) ==
  [st |-> r.st, last_message_time |-> Some("now"), cache_store |-> r.cache_store,
   calls |-> r.calls, refresh |-> IF r.ok THEN "ok" ELSE "err"]

\* a Some(Ok(_)) arm that reports the success and does not refresh
action_succeeded_norefresh(s, cache_store, success_msg, results, cache_ok) ==
  [st |-> set_success(record_action(s, success_msg), success_msg),
   last_message_time |-> Some("now"), cache_store |-> cache_store,
   calls |-> <<>>, refresh |-> "none"]

\* the Some(Ok(_)) arm: record, set_success, stamp the message, refresh
action_succeeded(s, cache_store, success_msg, results, cache_ok) ==
  after_action_refresh(
    refresh_and_cache_resources(set_success(record_action(s, success_msg), success_msg),
                                cache_store, results, cache_ok))

\* a Some(Err(e)) arm that drops the failure
action_failed_silent(s, e) == stop_loading(s)

\* the Some(Err(e)) arm
action_failed(s, e) == set_error(s, Display(e))

\* the None arm
no_provider_found(s) == set_error(s, NoProviderText)

\* start_loading, the provider scan, and the match on action_result.  `outcome`
\* is what the matched provider's execute_action returns.
perform_action(s, lmt, cache_store, info, verb, outcome, results, cache_ok) ==
  LET s1 == start_loading(s)
      i == find_provider(s.providers, info.resource_provider)
      call == [op |-> "execute_action", provider |-> i, owner |-> info.resource_provider,
               resource_id |-> info.resource_id, action |-> info.action, ok |-> outcome.ok]
  IN  IF i = 0
      THEN [st |-> no_provider_found(s1), last_message_time |-> lmt,
            cache_store |-> cache_store, calls |-> <<>>, refresh |-> "none"]
      ELSE IF outcome.ok
      THEN [action_succeeded(s1, cache_store, success_text(verb, info.resource_name),
                             results, cache_ok)
              EXCEPT !.calls = <<call>> \o @]
      ELSE [st |-> action_failed(s1, outcome.err), last_message_time |-> lmt,
            cache_store |-> cache_store, calls |-> <<call>>, refresh |-> "none"]

\* the outcomes execute_action can have for `info`, given the registrations
outcomes_for(provs, info) ==
  LET i == find_provider(provs, info.resource_provider)
  IN  IF i = 0 THEN {ExecOk}
      ELSE execute_action_outcomes(provs[i], info.resource_id, info.action)

\* the confirmation message built in the Detail Enter handler
confirmation_text(action, resource_name) ==
  "Are you sure you want to " \o action_lower(action) \o " '" \o resource_name
    \o "'?\n\nThis action cannot be undone.\n\nPress Enter to confirm or ESC to cancel."

\* ------------------------------------------------------------------- state
\* app_state, cache_store and last_message_time are the locals of run_tui and
\* run_app; pc is the position in run_tui.  event records what the last step
\* did (which handler ran, the provider and cache calls it made, the result
\* of the refresh it ran); pending records the (resource, action) for which
\* the confirmation on display was raised.  lock is the RwLock of the store;
\* refresher and reader are the positions and locals of a refresh_resources
\* call and of the tasks that read the store while it runs.
VARIABLES app_state, cache_store, last_message_time, pc, event, pending,
          lock, refresher, reader

vars == <<app_state, cache_store, last_message_time, pc, event, pending,
          lock, refresher, reader>>

FilterChars == {"R"}

\* the RwLock around the store (AppState::resources): the number of read
\* guards held and whether the write guard is held
Unlocked == [readers |-> 0, writer |-> FALSE]

\* tasks that hold a clone of the AppState and read its store
ReaderIds == {"r1", "r2"}

\* a refresh that is not running, and a reader that holds no guard
IdleRefresher == [pc |-> "idle", results |-> <<>>, next |-> 1, all_resources |-> <<>>]
IdleReader == [pc |-> "idle", seen |-> <<>>, during |-> {}]

\* the key loop and the direct calls run every method to its end before the
\* next one starts: the lock is free between them and no other task exists
NoTasks ==
  /\ lock = Unlocked
  /\ refresher = IdleRefresher
  /\ reader = [r \in ReaderIds |-> IdleReader]

Event(key, calls, refresh) == [key |-> key, calls |-> calls, refresh |-> refresh]

\* run_tui before the cache load:
\* AppState::new().with_providers(..).with_cache_enabled(..), for a cache handle
\* among `caches` and a registration among `configs`
InitWith(caches, configs) ==
  /\ cache_store \in caches
  /\ \E provs \in configs : app_state = new_state(provs, cache_store # None)
  /\ last_message_time = None
  /\ pc = "startup"
  /\ event = Event("init", <<>>, "none")
  /\ pending = None
  /\ NoTasks

\* a run without a cache: `cache.enabled` is off or the cache could not be opened
Init == InitWith({None}, ProviderConfigs)

Update(st, lmt, cs, key, calls, refresh) ==
  /\ app_state' = st
  /\ last_message_time' = lmt
  /\ cache_store' = cs
  /\ event' = Event(key, calls, refresh)
  /\ UNCHANGED <<lock, refresher, reader>>

\* whether a cache write succeeds; without a cache there is no write
CacheWriteOutcomes == IF cache_store = None THEN {TRUE} ELSE BOOLEAN

\* load_resources_from_cache: the state and the count it returns
load_resources_from_cache(s, rows) ==
  LET cached_resources == get_all_cached_resources(rows)
  IN  IF cached_resources = {}
      THEN [st |-> s, count |-> 0]
      ELSE [st |-> [s EXCEPT !.last_refresh = Some(first_cached_at(cached_resources))],
            count |-> Cardinality(cached_resources)]

loaded_text(count) ==
  "Loaded " \o ToString(count) \o " resources from cache (press 'r' to refresh)"

\* run_tui, from "Loading initial resources" to the call of run_app
Startup ==
  /\ pc = "startup"
  /\ pc' = "loop"
  /\ pending' = None
  /\ \E cache_read_ok \in BOOLEAN,
        results \in RefreshInputs[app_state.providers],
        cache_ok \in CacheWriteOutcomes :
       LET read_call == [op |-> "get_all_cached_resources", ok |-> cache_read_ok]
           l == IF cache_store # None /\ cache_read_ok
                THEN load_resources_from_cache(app_state, Unwrap(cache_store))
                ELSE [st |-> app_state, count |-> 0]
           pre == IF cache_store # None THEN <<read_call>> ELSE <<>>
       IN  IF l.count > 0
           THEN Update(set_success(l.st, loaded_text(l.count)), None, cache_store,
                       "Startup", pre, "none")
           ELSE \E r \in {refresh_and_cache_resources(l.st, cache_store, results, cache_ok)} :
                    Update(r.st, None, r.cache_store, "Startup", pre \o r.calls,
                           IF r.ok THEN "ok" ELSE "err")

Running == pc = "loop" /\ ~app_state.should_quit

\* the head of the loop once MESSAGE_DISPLAY_DURATION has elapsed since
\* last_message_time
MessageTimeout ==
  /\ Running
  /\ last_message_time # None
  /\ Update(clear_success(app_state), None, cache_store, "plain", <<>>, "none")
  /\ UNCHANGED <<pc, pending>>

\* `if app_state.should_quit { break; }`
Exit ==
  /\ pc = "loop"
  /\ app_state.should_quit
  /\ pc' = "exited"
  /\ event' = Event("Exit", <<>>, "none")
  /\ UNCHANGED <<app_state, cache_store, last_message_time, pending, lock, refresher, reader>>

\* -------------------------------------------------- confirmation handler
InConfirmation == Running /\ app_state.show_confirmation

ExecutionInputs(s, info) ==
  {[outcome |-> o, results |-> rs, cache_ok |-> c] :
     o \in outcomes_for(s.providers, info),
     rs \in RefreshInputs[s.providers],
     c \in CacheWriteOutcomes}

ConfirmEnter ==
  /\ InConfirmation
  /\ LET s1 == cancel_confirmation(app_state)
         info == action_info(s1)
     IN  IF info = None
         THEN Update(s1, last_message_time, cache_store, "ConfirmEnter", <<>>, "none")
         ELSE \E inp \in ExecutionInputs(s1, Unwrap(info)) :
                \E r \in {perform_action(s1, last_message_time, cache_store, Unwrap(info),
                            confirmed_verb(Unwrap(info).action),
                            inp.outcome, inp.results, inp.cache_ok)} :
                    Update(r.st, r.last_message_time, r.cache_store, "ConfirmEnter",
                           r.calls, r.refresh)
  /\ pending' = None
  /\ UNCHANGED pc

ConfirmEsc ==
  /\ InConfirmation
  /\ Update(cancel_confirmation(app_state), last_message_time, cache_store,
            "ConfirmEsc", <<>>, "none")
  /\ pending' = None
  /\ UNCHANGED pc

ConfirmOtherKey ==
  /\ InConfirmation
  /\ Update(app_state, last_message_time, cache_store, "plain", <<>>, "none")
  /\ UNCHANGED <<pc, pending>>

\* ----------------------------------------------------- filter-entry handler
InFilterEntry == Running /\ ~app_state.show_confirmation /\ is_filtering(app_state)

FilterChar(c) ==
  /\ InFilterEntry
  /\ Len(app_state.filter_text) < MaxFilterLen
  /\ Update(push_filter_char(app_state, c), last_message_time, cache_store,
            "plain", <<>>, "none")
  /\ UNCHANGED <<pc, pending>>

FilterBackspace ==
  /\ InFilterEntry
  /\ Update(pop_filter_char(app_state), last_message_time, cache_store,
            "plain", <<>>, "none")
  /\ UNCHANGED <<pc, pending>>

FilterEsc ==
  /\ InFilterEntry
  /\ LET s1 == exit_filter_mode(app_state)
         s2 == IF s1.filter_text = <<>> THEN apply_filter(s1) ELSE s1
     IN  Update(s2, last_message_time, cache_store, "plain", <<>>, "none")
  /\ UNCHANGED <<pc, pending>>

FilterEnter ==
  /\ InFilterEntry
  /\ Update(exit_filter_mode(app_state), last_message_time, cache_store,
            "plain", <<>>, "none")
  /\ UNCHANGED <<pc, pending>>

FilterOtherKey ==
  /\ InFilterEntry
  /\ Update(app_state, last_message_time, cache_store, "plain", <<>>, "none")
  /\ UNCHANGED <<pc, pending>>

\* a browse handler that is not held back by filter entry
InBrowse_while_filtering ==
  /\ Running
  /\ ~app_state.show_confirmation
  /\ app_state.view_mode \in {"Dashboard", "ResourceList"}

\* ------------------------------------------- Dashboard / ResourceList handler
InBrowse ==
  /\ Running
  /\ ~app_state.show_confirmation
  /\ ~is_filtering(app_state)
  /\ app_state.view_mode \in {"Dashboard", "ResourceList"}

\* a handler that calls neither a provider nor the cache
Plain(st, key) ==
  /\ Update(st, last_message_time, cache_store, "plain", <<>>, "none")
  /\ UNCHANGED <<pc, pending>>

KeyQuit == InBrowse /\ Plain(quit(app_state), "KeyQuit")

KeyTab == InBrowse /\ Plain(next_tab(app_state), "KeyTab")

KeyBackTab == InBrowse /\ Plain(prev_tab(app_state), "KeyBackTab")

KeySetTab(n) == InBrowse /\ Plain(set_tab(app_state, TabAll[n]), "KeySetTab")

KeyToggleView ==
  InBrowse /\ Plain(clear_messages(toggle_view_mode(app_state)), "KeyToggleView")

\* 'c': CacheStore::clear_cache(None), which may fail
KeyClearCache ==
  /\ InBrowse
  /\ UNCHANGED <<pc, pending>>
  /\ IF cache_store = None
     THEN Update(set_error(app_state, "Cache is not enabled"), last_message_time,
                 cache_store, "KeyClearCache", <<>>, "none")
     ELSE \E clear_ok \in BOOLEAN :
            LET call == [op |-> "clear_cache", ok |-> clear_ok]
                msg == "Cache cleared successfully"
            IN  IF clear_ok
                THEN Update(set_success(record_action(app_state, msg), msg), Some("now"),
                            Some({}), "KeyClearCache", <<call>>, "none")
                ELSE Update(set_error(app_state,
                                      "Failed to clear cache: Database error: disk I/O error"),
                            last_message_time, cache_store, "KeyClearCache", <<call>>, "none")

\* '/' that enters filter entry from the Dashboard view as well
KeySlash_any_view == InBrowse /\ Plain(enter_filter_mode(app_state), "KeySlash")

KeySlash ==
  /\ InBrowse
  /\ Plain(IF app_state.view_mode = "ResourceList" THEN enter_filter_mode(app_state)
           ELSE app_state, "KeySlash")

KeyEsc ==
  /\ InBrowse
  /\ Plain(IF app_state.filter_text # <<>> THEN clear_filter(app_state)
           ELSE clear_messages(app_state), "KeyEsc")

\* 'r', when the providers answer `results` and the cache write ends cache_ok
KeyRefreshWith(results, cache_ok) ==
  /\ InBrowse
  /\ UNCHANGED <<pc, pending>>
  /\ \E r \in {refresh_and_cache_resources(clear_messages(app_state), cache_store,
                                            results, cache_ok)},
        msg \in {"Resources refreshed successfully"} :
       IF r.ok
       THEN Update(set_success(record_action(r.st, msg), msg), Some("now"),
                   r.cache_store, "KeyRefresh", r.calls, "ok")
       ELSE Update(r.st, last_message_time, r.cache_store, "KeyRefresh", r.calls, "err")

KeyRefresh ==
  \E results \in RefreshInputs[app_state.providers], cache_ok \in CacheWriteOutcomes :
     KeyRefreshWith(results, cache_ok)

KeyUp ==
  /\ InBrowse
  /\ Plain(IF app_state.view_mode = "ResourceList" THEN prev_resource(app_state)
           ELSE app_state, "KeyUp")

KeyDown ==
  /\ InBrowse
  /\ Plain(IF app_state.view_mode = "ResourceList" THEN next_resource(app_state)
           ELSE app_state, "KeyDown")

KeyEnter ==
  /\ InBrowse
  /\ Plain(IF app_state.view_mode = "ResourceList"
           THEN enter_detail_view(clear_messages(app_state))
           ELSE app_state, "KeyEnter")

BrowseOtherKey == InBrowse /\ Plain(app_state, "BrowseOtherKey")

\* --------------------------------------------------- ResourceDetail handler
InDetail ==
  /\ Running
  /\ ~app_state.show_confirmation
  /\ ~is_filtering(app_state)
  /\ app_state.view_mode = "ResourceDetail"

\* the action_count block of the Detail Up / Down handlers
action_count(s) ==
  LET idx == get_selected_resource_index(s)
  IN  IF idx = None THEN 0
      ELSE LET resource == Get(s.resources, Unwrap(idx))
           IN  IF resource = None THEN 0 ELSE Len(supported_actions(Unwrap(resource)))

DetailQuit == InDetail /\ Plain(quit(app_state), "DetailQuit")

DetailEsc == InDetail /\ Plain(exit_detail_view(clear_messages(app_state)), "DetailEsc")

DetailUp == InDetail /\ Plain(prev_action(app_state, action_count(app_state)), "DetailUp")

DetailDown == InDetail /\ Plain(next_action(app_state, action_count(app_state)), "DetailDown")

DetailEnter ==
  /\ InDetail
  /\ UNCHANGED pc
  /\ LET info == action_info(app_state)
     IN  IF info = None
         THEN /\ Update(app_state, last_message_time, cache_store, "DetailEnter", <<>>, "none")
              /\ UNCHANGED pending
         ELSE IF is_destructive(Unwrap(info).action)
         THEN /\ Update(show_action_confirmation(app_state,
                           confirmation_text(Unwrap(info).action, Unwrap(info).resource_name)),
                        last_message_time, cache_store, "DetailEnter", <<>>, "none")
              /\ pending' = Some([resource_id |-> Unwrap(info).resource_id,
                                  action |-> Unwrap(info).action])
         ELSE /\ \E inp \in ExecutionInputs(app_state, Unwrap(info)) :
                   \E r \in {perform_action(app_state, last_message_time, cache_store,
                               Unwrap(info), immediate_verb(Unwrap(info).action),
                               inp.outcome, inp.results, inp.cache_ok)} :
                       Update(r.st, r.last_message_time, r.cache_store, "DetailEnter",
                              r.calls, r.refresh)
              /\ UNCHANGED pending

DetailOtherKey == InDetail /\ Plain(app_state, "DetailOtherKey")

\* --------------------------------------------------------------- key loop
Next ==
  \/ Startup
  \/ MessageTimeout
  \/ Exit
  \/ ConfirmEnter
  \/ ConfirmEsc
  \/ ConfirmOtherKey
  \/ \E c \in FilterChars : FilterChar(c)
  \/ FilterBackspace
  \/ FilterEsc
  \/ FilterEnter
  \/ FilterOtherKey
  \/ KeyQuit
  \/ KeyTab
  \/ KeyBackTab
  \/ \E n \in 1..Len(TabAll) : KeySetTab(n)
  \/ KeyToggleView
  \/ KeyClearCache
  \/ KeySlash
  \/ KeyEsc
  \/ KeyRefresh
  \/ KeyUp
  \/ KeyDown
  \/ KeyEnter
  \/ BrowseOtherKey
  \/ DetailQuit
  \/ DetailEsc
  \/ DetailUp
  \/ DetailDown
  \/ DetailEnter
  \/ DetailOtherKey

Spec == Init /\ [][Next]_vars

\* a launch without a cache, or with one that starts empty, expired or holding
\* two live rows
InitCache == InitWith({None} \cup {Some(rows) : rows \in InitialCaches}, {<<"GCP">>})

SpecCache == InitCache /\ [][Next]_vars

\* ------------------------------------------------------ AppState as a library
\* AppState driven through its public methods (as tests/ and the unit tests
\* do).  A single registered provider lists up to MaxWideLen resources;
\* several providers list up to MaxStoreLen in all.
StateInputs ==
  [provs \in ProviderConfigs |->
     {rs : rs \in ListResults(provs, IF Len(provs) = 1 THEN MaxWideLen ELSE MaxStoreLen)}]

\* what the last method call did, the selection cursor it started from, and
\* what the providers answered to it
CallEvent(method, calls, refresh, cursor, results) ==
  [key |-> method, calls |-> calls, refresh |-> refresh, cursor |-> cursor,
   results |-> results]

InitState ==
  /\ \E provs \in ProviderConfigs : app_state = new_state(provs, FALSE)
  /\ cache_store = None
  /\ last_message_time = None
  /\ pc = "api"
  /\ event = CallEvent("init", <<>>, "none", 0, <<>>)
  /\ pending = None
  /\ NoTasks

\* a method call on the AppState: st is the state it leaves
CallWith(st, method, calls, refresh, results) ==
  /\ pc = "api"
  /\ app_state' = st
  /\ event' = CallEvent(method, calls, refresh, app_state.selected_index, results)
  /\ UNCHANGED <<cache_store, last_message_time, pc, pending, lock, refresher, reader>>

\* a method call that reaches no provider
Call(st, method) == CallWith(st, method, <<>>, "none", <<>>)

Call_apply_filter == Call(apply_filter(app_state), "apply_filter")

Call_push_filter_char(c) ==
  /\ Len(app_state.filter_text) < MaxFilterLen
  /\ Call(push_filter_char(app_state, c), "push_filter_char")

Call_pop_filter_char == Call(pop_filter_char(app_state), "pop_filter_char")

Call_clear_filter == Call(clear_filter(app_state), "clear_filter")

Call_refresh_resources(results) ==
  \E r \in {refresh_resources(app_state, results)} :
     CallWith(r.st, "refresh_resources", r.calls, IF r.ok THEN "ok" ELSE "err", results)

Call_next_resource == Call(next_resource(app_state), "next_resource")

Call_prev_resource == Call(prev_resource(app_state), "prev_resource")

NextState ==
  \/ Call_apply_filter
  \/ \E c \in FilterChars : Call_push_filter_char(c)
  \/ Call_pop_filter_char
  \/ Call_clear_filter
  \/ \E results \in StateInputs[app_state.providers] : Call_refresh_resources(results)
  \/ Call_next_resource
  \/ Call_prev_resource

SpecState == InitState /\ [][NextState]_vars

\* ---------------------------------------- status line and tabs, called directly
\* AppState::clear_error
clear_error(s) == [s EXCEPT !.error_message = None]

\* texts a caller passes to set_error and set_success
MessageTexts == {"x", "y"}

Call_start_loading == Call(start_loading(app_state), "start_loading")

Call_stop_loading == Call(stop_loading(app_state), "stop_loading")

Call_set_error(error) == Call(set_error(app_state, error), "set_error")

Call_clear_error == Call(clear_error(app_state), "clear_error")

Call_set_success(message) == Call(set_success(app_state, message), "set_success")

Call_clear_success == Call(clear_success(app_state), "clear_success")

Call_clear_messages == Call(clear_messages(app_state), "clear_messages")

Call_next_tab == Call(next_tab(app_state), "next_tab")

Call_prev_tab == Call(prev_tab(app_state), "prev_tab")

Call_set_tab(n) == Call(set_tab(app_state, TabAll[n]), "set_tab")

NextStatus ==
  \/ Call_start_loading
  \/ Call_stop_loading
  \/ \E error \in MessageTexts : Call_set_error(error)
  \/ Call_clear_error
  \/ \E message \in MessageTexts : Call_set_success(message)
  \/ Call_clear_success
  \/ Call_clear_messages
  \/ Call_next_tab
  \/ Call_prev_tab
  \/ \E n \in 1..Len(TabAll) : Call_set_tab(n)
  \/ \E results \in RefreshInputs[app_state.providers] : Call_refresh_resources(results)

SpecStatus == InitState /\ [][NextStatus]_vars

\* ------------------------------------------------ the filter, called directly
\* characters typed into the filter: they reach the state label ("R", "D"),
\* the name ("b", "D"), and the id and region ("1")
TypedChars == {"R", "D", "b", "1"}

\* an AppState whose store holds `resources` under an empty filter, with the
\* selection cursor at `cursor`: what a refresh followed by next_resource
\* calls leaves
listed_state(resources, cursor) ==
  [apply_filter([new_state(<<"GCP">>, FALSE) EXCEPT !.resources = resources])
     EXCEPT !.selected_index = cursor]

InitFilter ==
  /\ \E resources \in SeqsUpTo(FilterPool, MaxFilterStoreLen) :
       \E cursor \in 0..(IF resources = <<>> THEN 0 ELSE Len(resources) - 1) :
          app_state = listed_state(resources, cursor)
  /\ cache_store = None
  /\ last_message_time = None
  /\ pc = "api"
  /\ event = CallEvent("init", <<>>, "none", 0, <<>>)
  /\ pending = None
  /\ NoTasks

Call_type_filter_char(c) ==
  /\ Len(app_state.filter_text) < MaxTextLen
  /\ Call(push_filter_char(app_state, c), "push_filter_char")

NextFilter ==
  \/ Call_apply_filter
  \/ \E c \in TypedChars : Call_type_filter_char(c)
  \/ Call_pop_filter_char
  \/ Call_clear_filter

SpecFilter == InitFilter /\ [][NextFilter]_vars

\* ------------------------------------- refresh_resources against readers
\* RwLock::try_read succeeds, and RwLock::read resolves, while no write guard
\* is held
can_read(l) == ~l.writer

\* a write guard that is granted while read guards are out
can_write_over_readers(l) == ~l.writer

\* RwLock::write resolves when no guard at all is held
can_write(l) == ~l.writer /\ l.readers = 0

InitLock ==
  /\ \E provs \in ProviderConfigs : app_state = new_state(provs, FALSE)
  /\ cache_store = None
  /\ last_message_time = None
  /\ pc = "tasks"
  /\ event = Event("init", <<>>, "none")
  /\ pending = None
  /\ NoTasks

\* a step of one of the tasks, or of the refresh_resources call that the
\* control loop is in
TaskStep(key) ==
  /\ pc \in {"tasks", "refresh"}
  /\ event' = Event(key, <<>>, "none")
  /\ UNCHANGED <<cache_store, last_message_time, pc, pending>>

\* refresh_resources is entered: start_loading, and an empty all_resources
RefreshStart(results) ==
  /\ refresher.pc = "idle"
  /\ TaskStep("RefreshStart")
  /\ app_state' = start_loading(app_state)
  /\ refresher' = [pc |-> "fetch", results |-> results, next |-> 1, all_resources |-> <<>>]
  /\ UNCHANGED <<lock, reader>>

\* one pass of `for provider in &self.providers`: the listing is awaited with
\* no guard on the store; a failure leaves through the had_error branch
RefreshFetch ==
  /\ refresher.pc = "fetch"
  /\ TaskStep("RefreshFetch")
  /\ LET outcome == refresher.results[refresher.next]
     IN  IF outcome.ok
         THEN /\ refresher' = [refresher EXCEPT
                                 !.all_resources = @ \o outcome.resources,
                                 !.next = @ + 1,
                                 !.pc = IF refresher.next = Len(app_state.providers)
                                        THEN "acquire" ELSE "fetch"]
              /\ UNCHANGED app_state
         ELSE /\ refresher' = IdleRefresher
              /\ app_state' = refresh_abort(app_state, outcome.err)
  /\ UNCHANGED <<lock, reader>>

\* self.resources.write().await
RefreshAcquire ==
  /\ refresher.pc = "acquire"
  /\ can_write(lock)
  /\ TaskStep("RefreshAcquire")
  /\ lock' = [lock EXCEPT !.writer = TRUE]
  /\ refresher' = [refresher EXCEPT !.pc = "swap"]
  /\ UNCHANGED <<app_state, reader>>

\* *resources = all_resources; a reader that holds a guard at this instant
\* has the new store added to what its read overlapped
RefreshSwap ==
  /\ refresher.pc = "swap"
  /\ TaskStep("RefreshSwap")
  /\ app_state' = [app_state EXCEPT !.resources = refresher.all_resources]
  /\ refresher' = [refresher EXCEPT !.pc = "release"]
  /\ reader' = [r \in ReaderIds |->
                  IF reader[r].pc = "reading"
                  THEN [reader[r] EXCEPT !.during = @ \cup {refresher.all_resources}]
                  ELSE reader[r]]
  /\ UNCHANGED lock

\* drop(resources)
RefreshRelease ==
  /\ refresher.pc = "release"
  /\ TaskStep("RefreshRelease")
  /\ lock' = [lock EXCEPT !.writer = FALSE]
  /\ refresher' = [refresher EXCEPT !.pc = "filter"]
  /\ UNCHANGED <<app_state, reader>>

\* apply_filter (which reads the store under a read guard), last_refresh,
\* stop_loading, return Ok
RefreshFinish ==
  /\ refresher.pc = "filter"
  /\ can_read(lock)
  /\ TaskStep("RefreshFinish")
  /\ app_state' = refresh_commit(app_state, app_state.resources)
  /\ refresher' = IdleRefresher
  /\ UNCHANGED <<lock, reader>>

\* a reader asks for a read guard with try_read: with the guard it starts to
\* read the store, without it it shows "Loading resources..." and gives up
ReaderTryRead(r) ==
  /\ reader[r].pc # "reading"
  /\ IF can_read(lock)
     THEN /\ TaskStep("ReaderTryRead")
          /\ lock' = [lock EXCEPT !.readers = @ + 1]
          /\ reader' = [reader EXCEPT ![r] = [pc |-> "reading", seen |-> <<>>,
                                              during |-> {app_state.resources}]]
     ELSE /\ TaskStep("ReaderTryReadErr")
          /\ reader' = [reader EXCEPT ![r] = IdleReader]
          /\ UNCHANGED lock
  /\ UNCHANGED <<app_state, refresher>>

\* the reader reads the next element of the store through its guard
ReaderNext(r) ==
  /\ reader[r].pc = "reading"
  /\ Len(reader[r].seen) < Len(app_state.resources)
  /\ TaskStep("ReaderNext")
  /\ reader' = [reader EXCEPT ![r].seen =
                  Append(@, app_state.resources[Len(reader[r].seen) + 1])]
  /\ UNCHANGED <<app_state, lock, refresher>>

\* the reader reached the end of the store and drops its guard
ReaderDone(r) ==
  /\ reader[r].pc = "reading"
  /\ Len(reader[r].seen) >= Len(app_state.resources)
  /\ TaskStep("ReaderDone")
  /\ lock' = [lock EXCEPT !.readers = @ - 1]
  /\ reader' = [reader EXCEPT ![r].pc = "done"]
  /\ UNCHANGED <<app_state, refresher>>

NextLock ==
  \/ \E results \in RefreshInputs[app_state.providers] : RefreshStart(results)
  \/ RefreshFetch
  \/ RefreshAcquire
  \/ RefreshSwap
  \/ RefreshRelease
  \/ RefreshFinish
  \/ \E r \in ReaderIds : ReaderTryRead(r)
  \/ \E r \in ReaderIds : ReaderNext(r)
  \/ \E r \in ReaderIds : ReaderDone(r)

SpecLock == InitLock /\ [][NextLock]_vars

\* ------------------------------------------- command characters as filter text
\* the characters that are commands of the browse handler
CommandChars == {"q", "r", "d", "c", "/"}

InitKeys == InitWith({None}, {<<"GCP">>})

\* the key loop in which the command characters are typed in filter entry too
NextKeys ==
  \/ Next
  \/ \E c \in CommandChars : FilterChar(c)

SpecKeys == InitKeys /\ [][NextKeys]_vars

\* ------------------------------------ detail view and confirmation, called directly
\* the max_actions a caller passes: 0 when nothing is selected, else the
\* length of the selected resource's supported_actions
ActionCounts == {0} \cup {Len(supported_actions(r)) : r \in FilterPool}

Call_enter_detail_view == Call(enter_detail_view(app_state), "enter_detail_view")

Call_exit_detail_view == Call(exit_detail_view(app_state), "exit_detail_view")

Call_toggle_view_mode == Call(toggle_view_mode(app_state), "toggle_view_mode")

Call_next_action(max_actions) ==
  Call(next_action(app_state, max_actions), "next_action")

Call_prev_action(max_actions) ==
  Call(prev_action(app_state, max_actions), "prev_action")

Call_show_action_confirmation ==
  Call(show_action_confirmation(app_state, confirmation_text("Terminate", "Web")),
       "show_action_confirmation")

Call_cancel_confirmation == Call(cancel_confirmation(app_state), "cancel_confirmation")

NextDetail ==
  \/ Call_enter_detail_view
  \/ Call_exit_detail_view
  \/ Call_toggle_view_mode
  \/ \E max_actions \in ActionCounts : Call_next_action(max_actions)
  \/ \E max_actions \in ActionCounts : Call_prev_action(max_actions)
  \/ Call_show_action_confirmation
  \/ Call_cancel_confirmation
  \/ \E results \in RefreshInputs[app_state.providers] : Call_refresh_resources(results)

SpecDetail == InitState /\ [][NextDetail]_vars

\* ------------------------------------- the control loop at its await points
\* run_app is one task: the positions below are the points where it asks the
\* RwLock of the store for a guard, holds one, or drops it.  pc is the
\* position; pending is the handler's local action_info; refresher holds the
\* locals of the refresh_resources call in progress.

\* whether the renderer of the current view reaches its try_read: the
\* dashboard and the list return before it while loading or showing an error,
\* the detail view returns before it without a selection
render_reads(s) ==
  IF s.view_mode = "ResourceDetail" THEN get_selected_resource_index(s) # None
  ELSE ~s.loading /\ s.error_message = None

InitLoop ==
  /\ \E results \in RefreshInputs[<<"GCP", "AWS", "AWS">>] :
        app_state = refresh_resources(new_state(<<"GCP", "AWS", "AWS">>, FALSE), results).st
  /\ cache_store \in {None, Some({})}
  /\ last_message_time = None
  /\ pc = "draw"
  /\ event = Event("init", <<>>, "none")
  /\ pending = None
  /\ NoTasks

\* one step of the loop from position `from` to position `to`
LoopStep(from, to, key) ==
  /\ pc = from
  /\ pc' = to
  /\ event' = Event(key, <<>>, "none")
  /\ UNCHANGED reader

\* the head of the loop: a success message older than the display duration
\* is cleared
LoopMessageTimeout ==
  /\ last_message_time # None
  /\ LoopStep("draw", "draw", "MessageTimeout")
  /\ app_state' = clear_success(app_state)
  /\ last_message_time' = None
  /\ UNCHANGED <<cache_store, pending, lock, refresher>>

\* terminal.draw: the renderer asks for the store with try_read; with the
\* guard it renders the store, without it it renders the loading indicator
LoopDraw ==
  /\ IF render_reads(app_state) /\ can_read(lock)
     THEN /\ LoopStep("draw", "render", "DrawRead")
          /\ lock' = [lock EXCEPT !.readers = @ + 1]
     ELSE /\ LoopStep("draw", "drawn", "DrawNoRead")
          /\ UNCHANGED lock
  /\ UNCHANGED <<app_state, cache_store, last_message_time, pending, refresher>>

\* the renderer returns and its guard is dropped
LoopRendered ==
  /\ LoopStep("render", "drawn", "Rendered")
  /\ lock' = [lock EXCEPT !.readers = @ - 1]
  /\ UNCHANGED <<app_state, cache_store, last_message_time, pending, refresher>>

\* `if app_state.should_quit { break }`
LoopBreak ==
  /\ app_state.should_quit
  /\ LoopStep("drawn", "done", "Break")
  /\ UNCHANGED <<app_state, cache_store, last_message_time, pending, lock, refresher>>

\* a key whose handler does not touch the store: st is the state it leaves
LoopKey(key, st) ==
  /\ ~app_state.should_quit
  /\ LoopStep("drawn", "draw", key)
  /\ app_state' = st
  /\ UNCHANGED <<cache_store, last_message_time, pending, lock, refresher>>

InList(s) == ~s.show_confirmation /\ s.input_mode = "Normal"
                /\ s.view_mode \in {"Dashboard", "ResourceList"}
InDetailMode(s) == ~s.show_confirmation /\ s.input_mode = "Normal"
                      /\ s.view_mode = "ResourceDetail"

LoopNoKey == LoopKey("NoKey", app_state)
LoopQuit == ~app_state.show_confirmation /\ LoopKey("q", quit(app_state))
LoopToggle == InList(app_state) /\ LoopKey("d", clear_messages(toggle_view_mode(app_state)))
LoopEnterDetail ==
  /\ InList(app_state) /\ app_state.view_mode = "ResourceList"
  /\ LoopKey("ListEnter", enter_detail_view(clear_messages(app_state)))
LoopExitDetail ==
  /\ InDetailMode(app_state)
  /\ LoopKey("DetailEsc", exit_detail_view(clear_messages(app_state)))
LoopConfirmEsc ==
  /\ app_state.show_confirmation
  /\ LoopKey("ConfirmEsc", cancel_confirmation(app_state))

\* Up or Down in the detail view: the block that computes count takes
\* a read guard
LoopCountAcquire(dir) ==
  /\ ~app_state.should_quit
  /\ InDetailMode(app_state)
  /\ can_read(lock)
  /\ LoopStep("drawn", dir, "CountAcquire")
  /\ lock' = [lock EXCEPT !.readers = @ + 1]
  /\ UNCHANGED <<app_state, cache_store, last_message_time, pending, refresher>>

\* the end of the count block drops the guard; then prev_action or
\* next_action
LoopCountRelease(dir) ==
  /\ LoopStep(dir, "draw", "CountRelease")
  /\ lock' = [lock EXCEPT !.readers = @ - 1]
  /\ LET idx == get_selected_resource_index(app_state)
         resource == IF idx = None THEN None
                     ELSE Get(app_state.resources, Unwrap(idx))
         count == IF resource = None THEN 0
                  ELSE Len(supported_actions(Unwrap(resource)))
     IN  app_state' = IF dir = "up" THEN prev_action(app_state, count)
                      ELSE next_action(app_state, count)
  /\ UNCHANGED <<cache_store, last_message_time, pending, refresher>>

\* Enter on a confirmation: cancel_confirmation, then the action_info block;
\* with a selection it takes a read guard
LoopConfirmEnter ==
  /\ ~app_state.should_quit
  /\ app_state.show_confirmation
  /\ app_state' = cancel_confirmation(app_state)
  /\ pending' = None
  /\ IF get_selected_resource_index(cancel_confirmation(app_state)) = None
     THEN /\ LoopStep("drawn", "draw", "ConfirmNoSelection")
          /\ UNCHANGED lock
     ELSE /\ can_read(lock)
          /\ LoopStep("drawn", "confirmed_info", "InfoAcquire")
          /\ lock' = [lock EXCEPT !.readers = @ + 1]
  /\ UNCHANGED <<cache_store, last_message_time, refresher>>

\* Enter in the detail view: the action_info block takes a read guard
LoopDetailEnter ==
  /\ ~app_state.should_quit
  /\ InDetailMode(app_state)
  /\ can_read(lock)
  /\ LoopStep("drawn", "immediate_info", "InfoAcquire")
  /\ lock' = [lock EXCEPT !.readers = @ + 1]
  /\ pending' = None
  /\ UNCHANGED <<app_state, cache_store, last_message_time, refresher>>

\* the position after the action_info block of a call site
ExecutePos(site) == IF site = "confirmed_info" THEN "confirmed_execute" ELSE "immediate_execute"

\* an action_info block that ends with its guard still held
LoopInfoKeep(site) ==
  /\ action_info(app_state) # None
  /\ LoopStep(site, ExecutePos(site), "InfoKeep")
  /\ pending' = action_info(app_state)
  /\ app_state' = start_loading(app_state)
  /\ UNCHANGED <<cache_store, last_message_time, lock, refresher>>

\* the end of the action_info block: the guard is dropped and action_info is
\* what was read.  Without it the handler ends; a destructive action on the
\* immediate path raises the confirmation; otherwise start_loading
LoopInfoRelease(site) ==
  /\ lock' = [lock EXCEPT !.readers = @ - 1]
  /\ IF action_info(app_state) = None
     THEN /\ LoopStep(site, "draw", "InfoNone")
          /\ pending' = None
          /\ UNCHANGED app_state
     ELSE IF site = "immediate_info" /\ is_destructive(Unwrap(action_info(app_state)).action)
     THEN /\ LoopStep(site, "draw", "InfoDestructive")
          /\ pending' = None
          /\ app_state' = show_action_confirmation(app_state,
                            confirmation_text(Unwrap(action_info(app_state)).action,
                                              Unwrap(action_info(app_state)).resource_name))
     ELSE /\ LoopStep(site, ExecutePos(site), "InfoRelease")
          /\ pending' = action_info(app_state)
          /\ app_state' = start_loading(app_state)
  /\ UNCHANGED <<cache_store, last_message_time, refresher>>

\* the provider scan and execute_action: no guard of the store is involved.
\* On Ok the handler records the success and calls refresh_and_cache_resources,
\* whose refresh_resources begins with start_loading
LoopExecute(site, results) ==
  LET info == Unwrap(pending)
      verb == IF site = "confirmed_info" THEN confirmed_verb(info.action)
              ELSE immediate_verb(info.action)
      success_msg == success_text(verb, info.resource_name)
  IN  /\ pc = ExecutePos(site)
      /\ \E outcome \in outcomes_for(app_state.providers, info) :
           IF find_provider(app_state.providers, info.resource_provider) = 0
           THEN /\ LoopStep(ExecutePos(site), "draw", "ExecuteNoProvider")
                /\ app_state' = no_provider_found(app_state)
                /\ pending' = None
                /\ UNCHANGED <<last_message_time, refresher>>
           ELSE IF outcome.ok
           THEN /\ LoopStep(ExecutePos(site), "refresh", "ExecuteOk")
                /\ app_state' = start_loading(set_success(record_action(app_state, success_msg),
                                                          success_msg))
                /\ last_message_time' = Some("now")
                /\ refresher' = [pc |-> "fetch", results |-> results, next |-> 1,
                                 all_resources |-> <<>>]
                /\ UNCHANGED pending
           ELSE /\ LoopStep(ExecutePos(site), "draw", "ExecuteErr")
                /\ app_state' = action_failed(app_state, outcome.err)
                /\ pending' = None
                /\ UNCHANGED <<last_message_time, refresher>>
      /\ UNCHANGED <<cache_store, lock>>

\* 'r' in the dashboard or the list: clear_messages and
\* refresh_and_cache_resources
LoopKeyRefresh(results) ==
  /\ ~app_state.should_quit
  /\ InList(app_state)
  /\ LoopStep("drawn", "refresh", "r")
  /\ app_state' = start_loading(clear_messages(app_state))
  /\ refresher' = [pc |-> "fetch", results |-> results, next |-> 1, all_resources |-> <<>>]
  /\ pending' = None
  /\ UNCHANGED <<cache_store, last_message_time, lock>>

\* refresh_resources returned Err (it set the error message): `?` leaves
\* refresh_and_cache_resources and the handler logs the error
LoopRefreshFailed ==
  /\ refresher.pc = "idle"
  /\ app_state.error_message # None
  /\ LoopStep("refresh", "draw", "RefreshFailed")
  /\ pending' = None
  /\ UNCHANGED <<app_state, cache_store, last_message_time, lock, refresher>>

\* refresh_resources returned Ok: with a cache the write-through takes a read
\* guard; without one refresh_and_cache_resources returns
LoopCacheAcquire ==
  /\ refresher.pc = "idle"
  /\ app_state.error_message = None
  /\ IF cache_store = None
     THEN /\ LoopStep("refresh", "refreshed", "NoCache")
          /\ UNCHANGED lock
     ELSE /\ can_read(lock)
          /\ LoopStep("refresh", "cache", "CacheAcquire")
          /\ lock' = [lock EXCEPT !.readers = @ + 1]
  /\ UNCHANGED <<app_state, cache_store, last_message_time, pending, refresher>>

\* cache.cache_resources(&resources) under the guard, which is dropped at the
\* end of the block; a failed write is logged
LoopCacheWrite(cache_ok) ==
  /\ LoopStep("cache", "refreshed", "CacheWrite")
  /\ cache_store' = IF cache_ok
                    THEN Some(cache_resources(Unwrap(cache_store), app_state.resources))
                    ELSE cache_store
  /\ lock' = [lock EXCEPT !.readers = @ - 1]
  /\ UNCHANGED <<app_state, last_message_time, pending, refresher>>

\* refresh_and_cache_resources returned Ok: the 'r' handler reports it, the
\* action handlers do nothing more
LoopRefreshed ==
  /\ LoopStep("refreshed", "draw", "Refreshed")
  /\ IF pending = None
     THEN /\ app_state' = set_success(record_action(app_state, "Resources refreshed successfully"),
                                      "Resources refreshed successfully")
          /\ last_message_time' = Some("now")
     ELSE UNCHANGED <<app_state, last_message_time>>
  /\ pending' = None
  /\ UNCHANGED <<cache_store, lock, refresher>>

NextLoop ==
  \/ LoopMessageTimeout
  \/ LoopDraw
  \/ LoopRendered
  \/ LoopBreak
  \/ LoopNoKey
  \/ LoopQuit
  \/ LoopToggle
  \/ LoopEnterDetail
  \/ LoopExitDetail
  \/ LoopConfirmEsc
  \/ \E dir \in {"up", "down"} : LoopCountAcquire(dir)
  \/ \E dir \in {"up", "down"} : LoopCountRelease(dir)
  \/ LoopConfirmEnter
  \/ LoopDetailEnter
  \/ \E site \in {"confirmed_info", "immediate_info"} : LoopInfoRelease(site)
  \/ \E site \in {"confirmed_info", "immediate_info"},
        results \in RefreshInputs[app_state.providers] : LoopExecute(site, results)
  \/ \E results \in RefreshInputs[app_state.providers] : LoopKeyRefresh(results)
  \/ RefreshFetch
  \/ RefreshAcquire
  \/ RefreshSwap
  \/ RefreshRelease
  \/ RefreshFinish
  \/ LoopRefreshFailed
  \/ LoopCacheAcquire
  \/ \E cache_ok \in BOOLEAN : LoopCacheWrite(cache_ok)
  \/ LoopRefreshed

SpecLoop == InitLoop /\ [][NextLoop]_vars

\* ------------------------------------------------------------- properties
\* C1: whenever the loop renders or polls, filtered_resources is the filter
\* applied to the current store and the current filter_text (every index, in
\* order, when filter_text is empty): neither is newer than the view.
C1_ViewIsCurrent ==
  /\ app_state.filtered_resources = apply_filter(app_state).filtered_resources
  /\ app_state.filter_text = <<>> =>
        app_state.filtered_resources = [i \in 1..Len(app_state.resources) |-> i - 1]

\* a refresh replaced the store while a filter was set, and the view shows
\* only part of the new store
C1_Witness ==
  /\ event.key = "KeyRefresh"
  /\ event.refresh = "ok"
  /\ app_state.filter_text # <<>>
  /\ Len(app_state.filtered_resources) > 0
  /\ Len(app_state.filtered_resources) < Len(app_state.resources)

\* C2: in every state of AppState a non-empty filtered view has the cursor
\* inside it; and on a 5-resource store with the cursor at 4, a filter edit
\* that matches exactly the indices 1 and 3 leaves the view [1, 3] and the
\* cursor 1.
C2_CursorInView ==
  /\ [](app_state.filtered_resources # <<>> =>
          app_state.selected_index < Len(app_state.filtered_resources))
  /\ [][(/\ Len(app_state.resources) = 5
          /\ app_state.selected_index = 4
          /\ event'.key = "push_filter_char"
          /\ {i \in 0..4 : matches_filter(app_state.resources[i + 1],
                                           to_lowercase(app_state'.filter_text))} = {1, 3})
         => (/\ app_state'.filtered_resources = <<1, 3>>
             /\ app_state'.selected_index = 1)]_vars

C2_Witness ==
  /\ event.key = "push_filter_char"
  /\ event.cursor = 4
  /\ Len(app_state.resources) = 5
  /\ app_state.filtered_resources = <<1, 3>>
  /\ app_state.selected_index = 1

\* C3: after any recompute of the filtered view (apply_filter, directly or
\* from a filter edit or a successful refresh) the cursor is inside the view,
\* or the view is empty and the cursor is 0.
C3_CursorAfterRecompute ==
  (\/ event.key \in {"apply_filter", "push_filter_char", "pop_filter_char", "clear_filter"}
   \/ event.key = "refresh_resources" /\ event.refresh = "ok")
  => \/ app_state.selected_index < Len(app_state.filtered_resources)
     \/ app_state.filtered_resources = <<>> /\ app_state.selected_index = 0

\* C4: refresh is all-or-nothing: when a provider's listing fails,
\* refresh_resources returns an error, the store, the filtered view, the cursor
\* and last_refresh are as before the call (what earlier providers returned is
\* dropped), and error_message holds the failure.
C4_RefreshAllOrNothing ==
  [][(/\ event'.key = "refresh_resources"
       /\ \E i \in 1..Len(event'.results) : ~event'.results[i].ok)
       => /\ event'.refresh = "err"
          /\ app_state'.resources = app_state.resources
          /\ app_state'.filtered_resources = app_state.filtered_resources
          /\ app_state'.selected_index = app_state.selected_index
          /\ app_state'.last_refresh = app_state.last_refresh
          /\ app_state'.error_message =
               Some("Failed to load resources: "
                      \o Display(event'.results[first_failure(event'.results)].err))]_vars

\* the second provider failed after the first had listed a resource, and the
\* store still holds the two resources of an earlier refresh
C4_Witness ==
  /\ event.key = "refresh_resources"
  /\ event.refresh = "err"
  /\ Len(event.calls) = 2
  /\ event.calls[1].ok /\ event.calls[1].listed = 1
  /\ ~event.calls[2].ok
  /\ Len(app_state.resources) = 2
  /\ app_state.last_refresh # None
  /\ app_state.error_message # None

\* the providers' results joined in registration order, first provider first
RECURSIVE C5_InOrder(_, _)
C5_InOrder(results, i) ==
  IF i > Len(results) THEN <<>> ELSE results[i].resources \o C5_InOrder(results, i + 1)

\* C5: when every provider's listing succeeds, refresh_resources returns Ok;
\* the store is then the providers' results concatenated in registration
\* order (nothing of the previous snapshot), the filtered view is the filter
\* applied to the new store, last_refresh is set and loading is false.
C5_RefreshSuccess ==
  [][(/\ event'.key = "refresh_resources"
       /\ \A i \in 1..Len(event'.results) : event'.results[i].ok)
       => /\ event'.refresh = "ok"
          /\ app_state'.resources = C5_InOrder(event'.results, 1)
          /\ app_state'.filtered_resources = apply_filter(app_state').filtered_resources
          /\ app_state'.last_refresh # None
          /\ app_state'.loading = FALSE]_vars

\* two providers listed one resource each and the store holds them in
\* registration order, under a filter that keeps only the second
C5_Witness ==
  /\ event.key = "refresh_resources"
  /\ event.refresh = "ok"
  /\ Len(event.calls) = 3
  /\ event.calls[1].listed = 1 /\ event.calls[2].listed = 1
  /\ app_state.resources = <<WebStopping, Web>>
  /\ app_state.filtered_resources = <<1>>
  /\ app_state.last_refresh # None
  /\ ~app_state.loading

\* the execute_action calls among the calls of a step
ExecCalls(e) == SelectSeq(e.calls, LAMBDA c : c.op = "execute_action")

\* C6: execute_action is called with Terminate only by the confirm key while
\* a confirmation is pending, raised by an earlier Enter in Detail on that
\* resource and action.  Enter in Detail on Terminate calls no provider and
\* raises the confirmation; Enter in Detail on another action calls the
\* matching provider at once and raises no confirmation.
C6_DestructiveViaConfirmation ==
  [][/\ \A k \in 1..Len(ExecCalls(event')) :
          ExecCalls(event')[k].action = "Terminate"
          => /\ app_state.show_confirmation
             /\ event'.key = "ConfirmEnter"
             /\ pending = Some([resource_id |-> ExecCalls(event')[k].resource_id,
                                action |-> "Terminate"])
     /\ (event'.key = "DetailEnter" /\ action_info(app_state) # None)
          => IF Unwrap(action_info(app_state)).action = "Terminate"
             THEN /\ event'.calls = <<>>
                  /\ app_state'.show_confirmation
                  /\ ~app_state.show_confirmation
             ELSE /\ ~app_state'.show_confirmation
                  /\ (\E i \in 1..Len(app_state.providers) :
                         app_state.providers[i] = Unwrap(action_info(app_state)).resource_provider)
                       => /\ Len(ExecCalls(event')) = 1
                          /\ ExecCalls(event')[1].action = Unwrap(action_info(app_state)).action
    ]_vars

\* the confirm key has just had a provider terminate the instance
C6_Witness ==
  /\ event.key = "ConfirmEnter"
  /\ Len(ExecCalls(event)) = 1
  /\ ExecCalls(event)[1].action = "Terminate"
  /\ ExecCalls(event)[1].ok

\* C7: Esc on a pending confirmation only dismisses it: show_confirmation
\* becomes false and the message empty, the view stays Detail, no provider is
\* called, and the store, the filtered view, both cursors and both messages
\* are as before.
C7_CancelHasNoSideEffect ==
  [][(app_state.show_confirmation /\ event'.key = "ConfirmEsc")
     => /\ ~app_state'.show_confirmation
        /\ app_state'.confirmation_message = ""
        /\ app_state.view_mode = "ResourceDetail"
        /\ app_state'.view_mode = "ResourceDetail"
        /\ event'.calls = <<>>
        /\ app_state'.resources = app_state.resources
        /\ app_state'.filtered_resources = app_state.filtered_resources
        /\ app_state'.selected_index = app_state.selected_index
        /\ app_state'.selected_action = app_state.selected_action
        /\ app_state'.error_message = app_state.error_message
        /\ app_state'.success_message = app_state.success_message]_vars

\* a confirmation on Terminate was cancelled with an error message on display
C7_Witness ==
  /\ event.key = "ConfirmEsc"
  /\ app_state.view_mode = "ResourceDetail"
  /\ app_state.selected_action = 2
  /\ app_state.resources # <<>>
  /\ app_state.error_message # None

\* C8: Enter on a pending confirmation executes the (resource, action) pair
\* for which the confirmation was raised, which is the pair under the
\* cursors, on the matching provider if there is one; afterwards no
\* confirmation is pending and the view is Detail, whatever the outcome; and
\* a refresh is run exactly when the action succeeded.
C8_ConfirmExecutesPending ==
  [][(app_state.show_confirmation /\ event'.key = "ConfirmEnter")
     => /\ ~app_state'.show_confirmation
        /\ app_state'.view_mode = "ResourceDetail"
        /\ pending # None
        /\ action_info(app_state) # None
        /\ Unwrap(pending) = [resource_id |-> Unwrap(action_info(app_state)).resource_id,
                              action |-> Unwrap(action_info(app_state)).action]
        /\ Len(ExecCalls(event')) =
             IF \E i \in 1..Len(app_state.providers) :
                  app_state.providers[i] = Unwrap(action_info(app_state)).resource_provider
             THEN 1 ELSE 0
        /\ \A k \in 1..Len(ExecCalls(event')) :
             [resource_id |-> ExecCalls(event')[k].resource_id,
              action |-> ExecCalls(event')[k].action] = Unwrap(pending)
        /\ (event'.refresh # "none") <=>
             (Len(ExecCalls(event')) = 1 /\ ExecCalls(event')[1].ok)
        /\ (event'.refresh = "none") <=>
             (\A k \in 1..Len(event'.calls) : event'.calls[k].op # "list_all_resources")]_vars

\* the confirmed action succeeded and the refresh after it listed every provider
C8_Witness ==
  /\ event.key = "ConfirmEnter"
  /\ Len(ExecCalls(event)) = 1
  /\ ExecCalls(event)[1].ok
  /\ event.refresh = "ok"
  /\ Len(event.calls) = 1 + Len(app_state.providers)
  /\ ~app_state.show_confirmation
  /\ app_state.view_mode = "ResourceDetail"

\* C9: an action on a resource reaches at most one provider: the first one in
\* registration order whose provider_type is the resource's provider; no
\* provider of another kind and no later provider of that kind is called.
C9_ActionRouting ==
  /\ Len(ExecCalls(event)) <= 1
  /\ \A k \in 1..Len(ExecCalls(event)) :
       /\ ExecCalls(event)[k].provider \in 1..Len(app_state.providers)
       /\ app_state.providers[ExecCalls(event)[k].provider] = ExecCalls(event)[k].owner
       /\ \A j \in 1..(ExecCalls(event)[k].provider - 1) :
            app_state.providers[j] # ExecCalls(event)[k].owner

\* with a provider of another kind registered first and two of the resource's
\* kind after it, the second registration received the call
C9_Witness ==
  /\ app_state.providers = <<"GCP", "AWS", "AWS">>
  /\ Len(ExecCalls(event)) = 1
  /\ ExecCalls(event)[1].owner = "AWS"
  /\ ExecCalls(event)[1].provider = 2

\* C10: when the matched provider's execute_action fails, error_message is
\* the failure text, success_message is None, nothing is refreshed and the
\* store is as before.  When no registered provider matches, no provider is
\* called, nothing is refreshed and error_message is 'No provider found for
\* this resource', a text no provider failure produces.
C10_ActionFailure ==
  [][/\ \A k \in 1..Len(ExecCalls(event')) :
          ~ExecCalls(event')[k].ok
          => /\ \E o \in execute_action_outcomes(
                            app_state.providers[ExecCalls(event')[k].provider],
                            ExecCalls(event')[k].resource_id, ExecCalls(event')[k].action) :
                   ~o.ok /\ app_state'.error_message = Some(Display(o.err))
             /\ app_state'.success_message = None
             /\ event'.refresh = "none"
             /\ Len(event'.calls) = 1
             /\ app_state'.resources = app_state.resources
     /\ (/\ action_info(app_state) # None
         /\ \/ (event'.key = "ConfirmEnter" /\ app_state.show_confirmation)
            \/ (event'.key = "DetailEnter"
                  /\ Unwrap(action_info(app_state)).action # "Terminate")
         /\ \A i \in 1..Len(app_state.providers) :
              app_state.providers[i] # Unwrap(action_info(app_state)).resource_provider)
          => /\ event'.calls = <<>>
             /\ event'.refresh = "none"
             /\ app_state'.resources = app_state.resources
             /\ app_state'.error_message = Some("No provider found for this resource")
             /\ \A kind \in {"AWS", "GCP"}, r \in Pool,
                   a \in {"Start", "Stop", "Restart", "Terminate", "ViewDetails"} :
                  \A o \in execute_action_outcomes(kind, r.id, a) :
                     ~o.ok => Display(o.err) # "No provider found for this resource"
    ]_vars

\* the provider refused to stop the instance while a list of resources was loaded
C10_Witness ==
  /\ event.key = "DetailEnter"
  /\ Len(ExecCalls(event)) = 1
  /\ ~ExecCalls(event)[1].ok
  /\ ExecCalls(event)[1].action = "Stop"
  /\ app_state.error_message =
       Some("Provider error from AWS: Failed to stop instance i-1: service error")
  /\ app_state.success_message = None
  /\ app_state.resources # <<>>

\* C11: error_message and success_message are never both present. set_error
\* leaves exactly the given error, no success message and loading false;
\* set_success leaves exactly the given success message, no error and loading
\* false; in particular set_error("x") called while the success message is "y"
\* leaves success_message = None and error_message = Some("x").
C11_MessagesExclusive ==
  /\ [](~(app_state.error_message # None /\ app_state.success_message # None))
  /\ [][\A m \in MessageTexts :
          /\ Call_set_error(m) =>
               /\ app_state'.error_message = Some(m)
               /\ app_state'.success_message = None
               /\ ~app_state'.loading
          /\ Call_set_success(m) =>
               /\ app_state'.success_message = Some(m)
               /\ app_state'.error_message = None
               /\ ~app_state'.loading]_vars
  /\ [][app_state.success_message = Some("y") /\ Call_set_error("x") =>
          /\ app_state'.success_message = None
          /\ app_state'.error_message = Some("x")]_vars

\* set_error("x") has just run on a state that holds resources
C11_Witness ==
  /\ event.key = "set_error"
  /\ app_state.error_message = Some("x")
  /\ app_state.success_message = None
  /\ app_state.resources # <<>>

\* C12: loading is false whenever a handler of the loop has finished, so at
\* every point where the loop renders or polls: after a successful refresh,
\* after a refresh whose listing failed, after a failed action, after no
\* provider matched, and after a successful action whose refresh failed.
C12_LoadingCleared == ~app_state.loading

\* a confirmed action succeeded and the refresh that followed it failed
C12_Witness ==
  /\ event.key = "ConfirmEnter"
  /\ \E i \in 1..Len(event.calls) :
        event.calls[i].op = "execute_action" /\ event.calls[i].ok
  /\ event.refresh = "err"
  /\ app_state.error_message # None
  /\ ~app_state.loading

\* C13: every success message, the "Loaded N resources from cache" message
\* set at startup included, is cleared by the loop once 3 seconds have passed
\* since it was set. The loop clears a message only through the instant it
\* keeps in last_message_time, so whenever a success message is shown that
\* instant must be present.
C13_SuccessMessageTimed ==
  (pc = "loop" /\ app_state.success_message # None) => last_message_time # None

\* the calls of one kind that a step made
CallsOf(e, op) == SelectSeq(e.calls, LAMBDA c : c.op = op)

\* C14: the cache write after a refresh is best effort. When the refresh
\* succeeds and the cache write fails, refresh_and_cache_resources still
\* returns Ok, the store holds the complete snapshot the providers listed, and
\* no error message is set; with a cache, a successful refresh attempts exactly
\* one write. When the refresh fails, no cache write is attempted and the cache
\* is unchanged.
C14_CacheBestEffort ==
  [][/\ (\E i \in 1..Len(event'.calls) :
           event'.calls[i].op = "cache_resources" /\ ~event'.calls[i].ok) =>
         /\ event'.refresh = "ok"
         /\ \E results \in RefreshInputs[app_state.providers] :
               /\ list_calls(results) = CallsOf(event', "list_all_resources")
               /\ app_state'.resources = concat_resources(results, Len(results))
         /\ app_state'.error_message = None
         /\ cache_store' = cache_store
     /\ (event'.refresh = "ok" /\ cache_store # None) =>
           Len(CallsOf(event', "cache_resources")) = 1
     /\ event'.refresh = "err" =>
         /\ CallsOf(event', "cache_resources") = <<>>
         /\ cache_store' = cache_store]_vars

\* 'r' refreshed a non-empty store and the cache write failed: the success
\* message is shown and the cache still holds its two rows
C14_Witness ==
  /\ event.key = "KeyRefresh"
  /\ event.refresh = "ok"
  /\ CallsOf(event, "cache_resources") = <<[op |-> "cache_resources", ok |-> FALSE]>>
  /\ app_state.resources # <<>>
  /\ app_state.success_message = Some("Resources refreshed successfully")
  /\ cache_store # None /\ Cardinality(Unwrap(cache_store)) = 2

\* C15: when the launch finds a cache that returns at least one unexpired
\* entry, startup calls list_all_resources on no provider, no later step calls
\* it either unless it is a command that refreshes ('r', or an action that
\* was carried out), and last_refresh is set to the cached_at of the newest
\* unexpired entry. When the cache is absent, returns no unexpired entry or
\* fails to read, startup attempts exactly one live refresh.
C15_StartupFromCache ==
  [][/\ event'.key = "Startup" =>
          LET read == CallsOf(event', "get_all_cached_resources")
              live == IF cache_store = None THEN {}
                      ELSE {row \in Unwrap(cache_store) : row.cached_at > 0}
              newest == CHOOSE row \in live : \A other \in live : other.cached_at <= row.cached_at
          IN  IF cache_store # None /\ read[1].ok /\ live # {}
              THEN /\ CallsOf(event', "list_all_resources") = <<>>
                   /\ event'.refresh = "none"
                   /\ app_state'.last_refresh = Some(newest.cached_at)
              ELSE /\ event'.refresh \in {"ok", "err"}
                   /\ Len(CallsOf(event', "list_all_resources")) = 1
     /\ CallsOf(event', "list_all_resources") # <<>> =>
          \/ event'.key \in {"Startup", "KeyRefresh"}
          \/ /\ event'.key \in {"ConfirmEnter", "DetailEnter"}
             /\ CallsOf(event', "execute_action") # <<>>]_vars

\* the launch read two live rows from the cache: no provider was asked, and
\* last_refresh is the newer of the two instants
C15_Witness ==
  /\ event.key = "Startup"
  /\ event.calls = <<[op |-> "get_all_cached_resources", ok |-> TRUE]>>
  /\ app_state.last_refresh = Some(2)
  /\ app_state.success_message # None

\* text t occurs in field value x when case is ignored
C16_Occurs(t, x) ==
  \E k \in 0..(Len(Chars[x]) - Len(t)) :
     \A j \in 1..Len(t) : LowerChar(Chars[x][k + j]) = LowerChar(t[j])

\* the 0-based store indices that the filter text selects
C16_Selected(resources, t) ==
  {i \in 0..(Len(resources) - 1) :
     \E x \in {resources[i + 1].name, resources[i + 1].id, resource_type(resources[i + 1]),
               resources[i + 1].state, resources[i + 1].region} : C16_Occurs(t, x)}

\* C16: apply_filter is a function of the store and the filter text alone: the
\* view it leaves lists, in ascending store order and once each, exactly the
\* indices of the resources whose name, id, category label, state label or
\* region contains the text case-insensitively, or every index when the text is
\* empty; and applying it a second time changes neither the view nor the cursor.
C16_FilterFunction ==
  /\ [][event'.key \in {"apply_filter", "push_filter_char", "pop_filter_char", "clear_filter"} =>
          LET view == app_state'.filtered_resources
              want == IF app_state'.filter_text = <<>>
                      THEN 0..(Len(app_state'.resources) - 1)
                      ELSE C16_Selected(app_state'.resources, app_state'.filter_text)
          IN  /\ {view[k] : k \in 1..Len(view)} = want
              /\ \A k \in 1..(Len(view) - 1) : view[k] < view[k + 1]]_vars
  /\ [](LET once == apply_filter(app_state)
            twice == apply_filter(once)
        IN  /\ twice.filtered_resources = once.filtered_resources
            /\ twice.selected_index = once.selected_index
            /\ twice = once)

\* the text "D" was typed over a store of three: it selects the two db
\* instances (by name and by state label, in lower case) and not Web
C16_Witness ==
  /\ event.key = "push_filter_char"
  /\ app_state.filter_text = <<"D">>
  /\ Len(app_state.resources) = 3
  /\ app_state.resources[1] = Web /\ app_state.resources[2] = Db /\ app_state.resources[3] = Db
  /\ app_state.filtered_resources = <<1, 2>>

\* C17: on a non-empty filtered view of length n, next_resource moves the
\* cursor to (cursor + 1) mod n and prev_resource to (cursor - 1) mod n, which
\* wraps 0 to n - 1, and neither changes anything else; prev_resource undoes
\* next_resource. On an empty view both leave the whole state unchanged.
C17_CursorWraps ==
  /\ [][LET n == Len(app_state.filtered_resources)
            cursor == app_state.selected_index
        IN  /\ event'.key = "next_resource" =>
                 app_state' = IF n = 0 THEN app_state
                              ELSE [app_state EXCEPT !.selected_index = (cursor + 1) % n]
            /\ event'.key = "prev_resource" =>
                 app_state' = IF n = 0 THEN app_state
                              ELSE [app_state EXCEPT !.selected_index = (cursor - 1) % n]]_vars
  /\ [](prev_resource(next_resource(app_state)) = app_state)

\* prev_resource was called with the cursor on the first of five rows and
\* left it on the last
C17_Witness ==
  /\ event.key = "prev_resource"
  /\ event.cursor = 0
  /\ Len(app_state.filtered_resources) = 5
  /\ app_state.selected_index = 4

\* C18: in every reachable state get_selected_resource_index returns None
\* exactly when the filtered view is empty; otherwise it returns
\* filtered_resources[selected_index], which is a valid index of the current
\* store, also after a refresh replaced the store with a shorter snapshot.
C18_SelectedIndexValid ==
  LET selected == get_selected_resource_index(app_state)
  IN  /\ selected = None <=> app_state.filtered_resources = <<>>
      /\ app_state.filtered_resources # <<>> =>
           /\ app_state.selected_index < Len(app_state.filtered_resources)
           /\ selected = Some(app_state.filtered_resources[app_state.selected_index + 1])
           /\ Unwrap(selected) \in 0..(Len(app_state.resources) - 1)

\* a refresh replaced a store of at least four resources by a single one
\* while the cursor was on the fourth row: the selection is the one resource
C18_Witness ==
  /\ event.key = "refresh_resources"
  /\ event.refresh = "ok"
  /\ event.cursor = 3
  /\ Len(app_state.resources) = 1
  /\ get_selected_resource_index(app_state) = Some(0)

\* the tab that follows `tab` in the order AWS, GCP, Azure, AllClouds, AWS
C19_After(tab) ==
  CASE tab = "AWS" -> "GCP" [] tab = "GCP" -> "Azure" [] tab = "Azure" -> "AllClouds"
    [] tab = "AllClouds" -> "AWS"

\* C19: the tabs form one cycle of length four, AWS, GCP, Azure, AllClouds.
\* next_tab moves one step along it and wraps from AllClouds to AWS, prev_tab
\* moves one step back and wraps from AWS to AllClouds; four next_tab calls
\* are the identity and fewer are not, prev_tab and next_tab undo each other,
\* and neither changes any other part of the state.
C19_TabCycle ==
  /\ [](LET s1 == next_tab(app_state)
            s2 == next_tab(s1)
            s3 == next_tab(s2)
        IN  /\ next_tab(s3) = app_state
            /\ app_state \notin {s1, s2, s3}
            /\ prev_tab(s1) = app_state
            /\ next_tab(prev_tab(app_state)) = app_state)
  /\ [][/\ event'.key = "next_tab" =>
             app_state' = [app_state EXCEPT !.active_tab = C19_After(app_state.active_tab)]
        /\ event'.key = "prev_tab" =>
             /\ C19_After(app_state'.active_tab) = app_state.active_tab
             /\ app_state' = [app_state EXCEPT !.active_tab = app_state'.active_tab]]_vars

\* prev_tab wrapped from AWS to AllClouds and kept the store and the error
\* message
C19_Witness ==
  /\ event.key = "prev_tab"
  /\ app_state.active_tab = "AllClouds"
  /\ app_state.resources # <<>>
  /\ app_state.error_message = Some("x")

\* sequence a is an initial part of sequence b
C20_Prefix(a, b) == Len(a) <= Len(b) /\ \A k \in 1..Len(a) : a[k] = b[k]

\* C20: a read of the store that overlaps a refresh sees one complete value of
\* the store, the one before the swap or the one after it: what a reader has
\* read so far is an initial part of a store value that existed while it held
\* its guard, and what it has read at the end is such a value. The write guard
\* is held only for the swap, after every provider was listed, and never while
\* a read guard is out; the store changes only in that swap, where it becomes
\* the freshly built all_resources as a whole.
C20_SnapshotReads ==
  /\ [](\A r \in ReaderIds :
          /\ reader[r].pc = "reading" =>
               \E snapshot \in reader[r].during : C20_Prefix(reader[r].seen, snapshot)
          /\ reader[r].pc = "done" => reader[r].seen \in reader[r].during)
  /\ [](lock.writer =>
          /\ refresher.pc \in {"swap", "release"}
          /\ refresher.next = Len(app_state.providers) + 1
          /\ lock.readers = 0)
  /\ [][app_state'.resources # app_state.resources =>
          /\ refresher.pc = "swap"
          /\ lock.writer
          /\ app_state'.resources = refresher.all_resources]_vars

\* a reader finished reading the two resources of the old store while the
\* refresh, with a different store fetched from all three providers, waits
\* for the write guard that a second reader still keeps from it
C20_Witness ==
  /\ Len(app_state.providers) = 3
  /\ refresher.pc = "acquire"
  /\ refresher.all_resources # app_state.resources
  /\ reader["r1"].pc = "done"
  /\ reader["r1"].seen = app_state.resources
  /\ Len(app_state.resources) = 2
  /\ reader["r2"].pc = "reading"
  /\ Len(reader["r2"].seen) = 1
  /\ lock.readers = 1

\* C21: a key press is handled by exactly one handler, chosen by priority: the
\* confirmation handler while show_confirmation is true, else the filter-entry
\* handler while the input mode is Filter, else the handler of the view mode.
\* While a confirmation is pending a key other than Enter and Esc leaves the
\* state unchanged (only the message timer of the loop may clear a success
\* message); in filter entry no key quits, refreshes, toggles the view, clears
\* the cache or changes the tab, and 'q', 'r', 'd', 'c' and '/' are appended to
\* the filter text.
C21_OneHandler ==
  /\ [](Running =>
          /\ InConfirmation \/ InFilterEntry \/ InBrowse \/ InDetail
          /\ ~(InConfirmation /\ (InFilterEntry \/ InBrowse \/ InDetail))
          /\ ~(InFilterEntry /\ (InBrowse \/ InDetail))
          /\ ~(InBrowse /\ InDetail))
  /\ [][(InConfirmation /\ event'.key \notin {"ConfirmEnter", "ConfirmEsc"}) =>
          /\ app_state' \in {app_state, clear_success(app_state)}
          /\ cache_store' = cache_store
          /\ pending' = pending]_vars
  /\ [][InFilterEntry =>
          /\ event'.key = "plain" /\ event'.calls = <<>>
          /\ cache_store' = cache_store
          /\ ~app_state'.should_quit
          /\ app_state'.view_mode = app_state.view_mode
          /\ app_state'.active_tab = app_state.active_tab
          /\ app_state'.resources = app_state.resources
          /\ \A c \in CommandChars :
                FilterChar(c) =>
                  /\ app_state'.filter_text = Append(app_state.filter_text, c)
                  /\ app_state'.input_mode = "Filter"]_vars

\* 'c' was typed in filter entry: it is the filter text, it matches the
\* category label of both resources, and the cache-disabled error is not shown
C21_Witness ==
  /\ app_state.input_mode = "Filter"
  /\ app_state.filter_text = <<"c">>
  /\ Len(app_state.filtered_resources) = 2
  /\ app_state.error_message = None
  /\ ~app_state.should_quit

\* C22: the view mode becomes ResourceDetail only by Enter in the
\* ResourceList view while the filtered view is non-empty, and that step sets
\* the action cursor to 0. enter_detail_view on an empty filtered view changes
\* nothing, and Enter in the Dashboard view never enters the detail view.
C22_DetailEntry ==
  /\ [][(app_state'.view_mode = "ResourceDetail" /\ app_state.view_mode # "ResourceDetail") =>
          /\ InBrowse
          /\ app_state.view_mode = "ResourceList"
          /\ app_state.filtered_resources # <<>>
          /\ app_state'.selected_action = 0
          /\ app_state' = [clear_messages(app_state) EXCEPT !.view_mode = "ResourceDetail",
                                                            !.selected_action = 0]]_vars
  /\ [][KeyEnter =>
          IF app_state.view_mode = "ResourceList" /\ app_state.filtered_resources # <<>>
          THEN app_state'.view_mode = "ResourceDetail"
          ELSE app_state'.view_mode = app_state.view_mode
               /\ app_state'.selected_action = app_state.selected_action]_vars
  /\ [](app_state.filtered_resources = <<>> => enter_detail_view(app_state) = app_state)

\* the detail view is open on the second row of a filtered view
C22_Witness ==
  /\ app_state.view_mode = "ResourceDetail"
  /\ app_state.selected_action = 0
  /\ app_state.selected_index = 1
  /\ app_state.filter_text # <<>>
  /\ ~app_state.show_confirmation

\* C23: exit_detail_view may be called in any state, and it leaves the view
\* mode ResourceList, the action cursor 0, no confirmation pending and the
\* confirmation message empty.
C23_ExitDetail ==
  event.key = "exit_detail_view" =>
    /\ app_state.view_mode = "ResourceList"
    /\ app_state.selected_action = 0
    /\ ~app_state.show_confirmation
    /\ app_state.confirmation_message = ""

\* C24: whenever the view mode is ResourceDetail, with or without a pending
\* confirmation, and a resource is selected, selected_action is less than the
\* number of actions that resource supports, also after the refresh that
\* follows an action replaced the resource by one that supports fewer actions.
C24_ActionCursorInRange ==
  (app_state.view_mode = "ResourceDetail" /\ get_selected_resource_index(app_state) # None)
    => app_state.selected_action < action_count(app_state)

\* C25: in every state of the key loop, input mode Filter implies that the
\* view mode is ResourceList and no confirmation is pending; a pending
\* confirmation implies that the view mode is ResourceDetail, the input mode
\* is Normal, the confirmation message is not empty and the action under the
\* action cursor of the selected resource is destructive; and the confirmation
\* message is empty whenever no confirmation is pending.
C25_ModeInvariants ==
  /\ app_state.input_mode = "Filter" =>
       /\ app_state.view_mode = "ResourceList"
       /\ ~app_state.show_confirmation
  /\ app_state.show_confirmation =>
       /\ app_state.view_mode = "ResourceDetail"
       /\ app_state.input_mode = "Normal"
       /\ app_state.confirmation_message # ""
       /\ action_info(app_state) # None
       /\ is_destructive(Unwrap(action_info(app_state)).action)
  /\ ~app_state.show_confirmation => app_state.confirmation_message = ""

\* a confirmation is pending for the second row of a filtered view
C25_Witness ==
  /\ app_state.show_confirmation
  /\ app_state.filter_text # <<>>
  /\ app_state.selected_index = 1
  /\ app_state.selected_action = 2

\* C26: one refresh asks the providers one after the other in registration
\* order, each at most once, and asks none after the first that fails; a step
\* runs at most one refresh, and only Startup, the refresh key and an action
\* that succeeded run one, so a failed refresh is not tried again until the
\* user gives such a command.
C26_SequentialNoRetry ==
  [][LET listed == CallsOf(event', "list_all_resources")
         executed == CallsOf(event', "execute_action")
     IN  /\ Len(listed) <= Len(app_state.providers)
         /\ \A i \in 1..Len(listed) :
               /\ listed[i].provider = i
               /\ ~listed[i].ok => i = Len(listed)
         /\ event'.refresh = "ok" <=>
               (Len(listed) = Len(app_state.providers) /\ \A i \in 1..Len(listed) : listed[i].ok)
         /\ event'.refresh = "err" <=> (listed # <<>> /\ ~listed[Len(listed)].ok)
         /\ listed # <<>> =>
               \/ event'.key \in {"Startup", "KeyRefresh"}
               \/ /\ event'.key \in {"ConfirmEnter", "DetailEnter"}
                  /\ Len(executed) = 1 /\ executed[1].ok]_vars

\* 'r' failed at the second of three providers: the third was not asked
C26_Witness ==
  /\ event.key = "KeyRefresh"
  /\ event.refresh = "err"
  /\ Len(app_state.providers) = 3
  /\ Len(event.calls) = 2
  /\ event.calls[1].ok /\ ~event.calls[2].ok
  /\ app_state.error_message # None

\* C27: when startup took the cache path and reports "Loaded N resources from
\* cache" with N > 0, the store holds those N cached resources and, the filter
\* being empty, the filtered view lists all N of them.
C27_StoreHydrated ==
  \A n \in 1..Cardinality(UNION InitialCaches) :
     (/\ event.key = "Startup"
      /\ app_state.success_message = Some(loaded_text(n)))
     => /\ Len(app_state.resources) = n
        /\ app_state.filtered_resources = [i \in 1..n |-> i - 1]

\* C28: when an action succeeded and the refresh that follows it succeeded as
\* well, the finished handler leaves the outcome on display: success_message
\* holds the "Successfully ... <resource name>" text of the action,
\* error_message is None, and last_action holds the same text.
C28_OutcomeShown ==
  (/\ event.key \in {"ConfirmEnter", "DetailEnter"}
   /\ \E i \in 1..Len(event.calls) :
         event.calls[i].op = "execute_action" /\ event.calls[i].ok
   /\ event.refresh = "ok")
  => /\ app_state.last_action # None
     /\ app_state.success_message = app_state.last_action
     /\ app_state.error_message = None

\* the (success_message, error_message) pair that the Some(Ok(_)) arm of a
\* call site leaves when it runs on state s with the verb of that site
C29_Pair(s, info, verb, inp) ==
  LET r == perform_action(s, last_message_time, cache_store, info, verb,
                          inp.outcome, inp.results, inp.cache_ok)
  IN  <<r.st.success_message, r.st.error_message>>

\* the inputs under which the action succeeds and the refresh after it fails
C29_FailingRefresh(s, info) ==
  {inp \in ExecutionInputs(s, info) :
     inp.outcome.ok /\ \E i \in 1..Len(inp.results) : ~inp.results[i].ok}

C30_NoLockDeadlock ==
  /\ pc # "done" => ENABLED NextLoop
  /\ pc = "draw" => ENABLED LoopDraw
  /\ (pc = "refresh" /\ refresher.pc = "acquire") => lock = Unlocked
  /\ pc \in {"draw", "drawn", "done", "confirmed_execute", "immediate_execute", "refreshed"}
       => lock = Unlocked

\* the refresh that follows a successful action holds the write guard, with a
\* cache to write through afterwards
C30_Witness ==
  /\ pc = "refresh"
  /\ refresher.pc = "swap"
  /\ lock = [readers |-> 0, writer |-> TRUE]
  /\ pending # None
  /\ cache_store # None
  /\ event.key = "RefreshAcquire"

====
